---- MODULE Spec2Model ----
(***************************************************************************)
(* Model of the dapi-staking era engine (pallets/dapi-staking/src/pallet/  *)
(* mod.rs) together with the block-reward pallet that feeds it             *)
(* (pallets/block-reward/src/lib.rs).                                      *)
(*                                                                         *)
(* A block is run as the runtime runs it: on_initialize(now), then the     *)
(* timestamp inherent (on_timestamp_set), then any number of calls.        *)
(* The currency is pallet_balances as configured in the mock runtime.      *)
(***************************************************************************)
EXTENDS Integers, Sequences, FiniteSets, TLC

\* ------------------------------------------------------------------ bounds
MaxBlock == 7
MaxStakes == 2
MaxForce == 1

\* --------------------------------------------------------- configuration
BlockPerEra == 3
RewardAmount == 1000
\* T::HistoryDepth is a runtime parameter with no value fixed in the sources.
HistoryDepth == 1
MinimumRemainingAmount == 1
ExistentialDeposit == 2
MinimumStakingAmount == 10
MaxNumberOfStakers == 5
OperatorRewardPercentage == 80
MaxUnlockingChunks == 4
UnbondingPeriod == 3
PERBILL_MAX == 1000000000

\* Accounts are the mock runtime's account ids; the pallet's own account
\* (PalletId::into_account) is represented by id 0.
PoolAccount == 0
Stakers == {6, 540}
Pools == {"p1", "p2"}
StakeValues == {3}
GenesisBalance ==
  (1 :> 9000) @@ (2 :> 800) @@ (3 :> 10000) @@ (4 :> 4900) @@ (5 :> 3800)
    @@ (6 :> 10) @@ (540 :> 2)
GenesisIssuance ==
  GenesisBalance[1] + GenesisBalance[2] + GenesisBalance[3] + GenesisBalance[4]
    + GenesisBalance[5] + GenesisBalance[6] + GenesisBalance[540]
Signed(who) == [kind |-> "Signed", who |-> who]
Root == [kind |-> "Root", who |-> 0]
Origins == {Signed(6), Root}

Min(a, b) == IF a < b THEN a ELSE b
Max(a, b) == IF a > b THEN a ELSE b
saturating_sub(a, b) == IF a > b THEN a - b ELSE 0

\* -------------------------------------------------------- Perbill (ppb)
RECURSIVE LongDiv(_, _, _, _)
\* floor((acc*q + r) * 10^k / q), digit by digit, so that no intermediate
\* value leaves the 32-bit range.
LongDiv(r, q, k, acc) ==
  IF k = 0 THEN acc
  ELSE LongDiv((r * 10) % q, q, k - 1, acc * 10 + ((r * 10) \div q))

\* Perbill::from_rational(p, q): q is raised to 1, p is capped by q, the
\* quotient is rounded down to parts per billion.
from_rational(p, q) ==
  LET q1 == Max(q, 1)
      p1 == Min(p, q1)
  IN LongDiv(p1 % q1, q1, 9, p1 \div q1)

\* Perbill * balance: part * x / 10^9 rounded to the nearest integer, a tie
\* rounding down.
perbill_mul(part, x) ==
  LET ph == part \div 100000
      pl == part % 100000
      A  == x * ph
      B  == x * pl
      hi == A + (B \div 100000)
      lo == B % 100000
      quot == hi \div 10000
      rem  == (hi % 10000) * 100000 + lo
  IN IF rem > PERBILL_MAX \div 2 THEN quot + 1 ELSE quot

\* ----------------------------------------------------------------- state
VARIABLES
  now,                      \* System::block_number()
  pc,                       \* position inside the block
  current_era,              \* CurrentEra
  block_reward_accumulator, \* BlockRewardAccumulator
  force_era,                \* ForceEra
  era_reward_and_stake,     \* EraRewardsAndStakes (partial map)
  pool_era_stake,           \* PoolEraStake (partial double map)
  ledger,                   \* Ledger (partial map)
  locks,                    \* currency locks under STAKING_ID
  free_balance,             \* currency free balances
  total_issuance,           \* currency total issuance
  events,                   \* events deposited by the last operation
  result,                   \* outcome of the last operation: "Ok" or the error
  hist,                     \* history: start block, forcing, boundaries, counters
  registered_pool,          \* RegisteredPool (the keys of the map)
  reserved_balance,         \* currency reserved balances
  chain_ids,                \* dapi: ChainIds
  fishermen,                \* dapi: Fishermen
  projects,                 \* dapi: Projects (partial map)
  providers,                \* dapi: Providers (partial map)
  registered_providers      \* staking: RegisteredProviders (partial map)

vars == <<now, pc, current_era, block_reward_accumulator, force_era,
          era_reward_and_stake, pool_era_stake, ledger, locks, free_balance,
          total_issuance, events, result, hist, registered_pool,
          reserved_balance, chain_ids, fishermen, projects, providers,
          registered_providers>>

stakingVars == <<current_era, block_reward_accumulator, force_era,
                 era_reward_and_stake, pool_era_stake, ledger>>
currencyVars == <<locks, free_balance, total_issuance>>
registryVars == <<registered_pool, reserved_balance, chain_ids, fishermen,
                  projects, providers, registered_providers>>

DefaultEraRewardAndStake == [rewards |-> 0, staked |-> 0]
EmptyStakers == [s \in {} |-> 0]
DefaultEraStakingPoints == [total |-> 0, stakers |-> EmptyStakers, claimed_rewards |-> 0]
DefaultAccountLedger == [locked |-> 0, unbonding_info |-> <<>>]
DefaultProject == [consumer |-> 0, chain_id |-> "", quota |-> 0, usage |-> 0]
DefaultProvider == [provider_type |-> "Gateway", operator |-> 0, chain_id |-> "",
                    state |-> "Registered"]
\* ProviderState of the staking pallet's ProviderInfo
Registered == [name |-> "Registered"]
Unregistered(unregistered_era, unbonding_era) ==
  [name |-> "Unregistered", unregistered_era |-> unregistered_era,
   unbonding_era |-> unbonding_era]
DefaultProviderInfo == [operator |-> 0, state |-> Registered]

\* Genesis with the given pools registered for staking.
Genesis(registered) ==
  /\ now \in 1..BlockPerEra
  /\ pc = "genesis"
  /\ current_era = 0
  /\ block_reward_accumulator = 0
  /\ force_era = "ForceNone"
  /\ era_reward_and_stake = [e \in {} |-> DefaultEraRewardAndStake]
  /\ pool_era_stake = [k \in {} |-> DefaultEraStakingPoints]
  /\ ledger = [s \in {} |-> DefaultAccountLedger]
  /\ locks = [s \in {} |-> 0]
  /\ free_balance = GenesisBalance @@ (PoolAccount :> 0)
  /\ total_issuance = GenesisIssuance
  /\ events = <<>>
  /\ result = "Ok"
  /\ hist = [start_block |-> now, forced |-> 0, stakes |-> 0, unstakes |-> 0,
             last_boundary |-> 0, last_forced |-> FALSE, forced_at_boundary |-> 0]
  /\ registered_pool = registered
  /\ reserved_balance = [a \in DOMAIN GenesisBalance \cup {PoolAccount} |-> 0]
  /\ chain_ids = {}
  /\ fishermen = {}
  /\ projects = [j \in {} |-> DefaultProject]
  /\ providers = [p \in {} |-> DefaultProvider]
  /\ registered_providers = [p \in {} |-> DefaultProviderInfo]

Init == Genesis({})

\* ------------------------------------------------------- storage helpers
Insert(m, k, v) == [x \in (DOMAIN m) \cup {k} |-> IF x = k THEN v ELSE m[x]]
Remove(m, k) == [x \in (DOMAIN m) \ {k} |-> m[x]]

\* Self::era_reward_and_stake(era).unwrap_or_default()
era_reward_and_stake_or_default(m, era) ==
  IF era \in DOMAIN m THEN m[era] ELSE DefaultEraRewardAndStake

\* Self::ledger(staker): a ValueQuery map
ledger_of(staker) ==
  IF staker \in DOMAIN ledger THEN ledger[staker] ELSE DefaultAccountLedger

\* a snapshot that books the reward on the era it opens
reward_balance_snapshot_next(m, era, reward) ==
  LET ras == era_reward_and_stake_or_default(m, era)
      m1  == Insert(m, era + 1, [rewards |-> reward, staked |-> ras.staked])
  IN Insert(m1, era, ras)

\* reward_balance_snapshot(era, reward): the storage map after the snapshot
reward_balance_snapshot(m, era, reward) ==
  LET ras == era_reward_and_stake_or_default(m, era)
      m1  == Insert(m, era + 1, [rewards |-> 0, staked |-> ras.staked])
  IN Insert(m1, era, [ras EXCEPT !.rewards = reward])

SetMax(S) == CHOOSE x \in S : \A y \in S : y <= x
SetMin(S) == CHOOSE x \in S : \A y \in S : x <= y

\* a lookup without the fallback: the default when there is no direct entry
staking_info_direct_only(pool_id, era) ==
  IF <<pool_id, era>> \in DOMAIN pool_era_stake
  THEN pool_era_stake[<<pool_id, era>>]
  ELSE DefaultEraStakingPoints

\* a fallback to the latest stored entry of the pool, whatever its era
staking_info_latest_stored(pool_id, era) ==
  IF <<pool_id, era>> \in DOMAIN pool_era_stake
  THEN pool_era_stake[<<pool_id, era>>]
  ELSE LET stored == {k[2] : k \in {x \in DOMAIN pool_era_stake : x[1] = pool_id}}
           available_era == IF stored = {} THEN 0 ELSE SetMax(stored)
           staking_points == IF <<pool_id, available_era>> \in DOMAIN pool_era_stake
                             THEN pool_era_stake[<<pool_id, available_era>>]
                             ELSE DefaultEraStakingPoints
       IN [staking_points EXCEPT !.claimed_rewards = 0]

\* a fallback that hands out the earlier entry with its claimed_rewards
staking_info_keeping_claimed(pool_id, era) ==
  IF <<pool_id, era>> \in DOMAIN pool_era_stake
  THEN pool_era_stake[<<pool_id, era>>]
  ELSE LET prior == {k[2] : k \in {x \in DOMAIN pool_era_stake : x[1] = pool_id /\ x[2] <= era}}
           available_era == IF prior = {} THEN 0 ELSE SetMax(prior)
       IN IF <<pool_id, available_era>> \in DOMAIN pool_era_stake
          THEN pool_era_stake[<<pool_id, available_era>>]
          ELSE DefaultEraStakingPoints

\* staking_info(pool_id, era): the direct entry, or the latest stored entry
\* at an era <= era (era 0 when there is none) with claimed_rewards zeroed.
staking_info(pool_id, era) ==
  IF <<pool_id, era>> \in DOMAIN pool_era_stake
  THEN pool_era_stake[<<pool_id, era>>]
  ELSE LET prior == {k[2] : k \in {x \in DOMAIN pool_era_stake : x[1] = pool_id /\ x[2] <= era}}
           available_era == IF prior = {} THEN 0 ELSE SetMax(prior)
           staking_points == IF <<pool_id, available_era>> \in DOMAIN pool_era_stake
                             THEN pool_era_stake[<<pool_id, available_era>>]
                             ELSE DefaultEraStakingPoints
       IN [staking_points EXCEPT !.claimed_rewards = 0]

\* ------------------------------------------------------- currency (mock)
\* Currency::resolve_creating(who, imbalance): credits the amount; a credit
\* that would create an account below the existential deposit is dropped
\* (and its issuance with it).
resolve_creating_free(who, amount) ==
  IF free_balance[who] = 0 /\ amount < ExistentialDeposit
  THEN free_balance
  ELSE [free_balance EXCEPT ![who] = @ + amount]
resolve_creating_issuance(who, amount, issuance) ==
  IF free_balance[who] = 0 /\ amount < ExistentialDeposit
  THEN issuance - amount
  ELSE issuance

\* Currency::withdraw(who, value, TRANSFER, AllowDeath)
withdraw_ok(who, value) == value = 0 \/ free_balance[who] >= value
\* what is left on the account; a remainder below the existential deposit
\* is dust and the account is reaped.
withdraw_dust(who, value) ==
  LET new_free == free_balance[who] - value
  IN IF value > 0 /\ new_free < ExistentialDeposit THEN new_free ELSE 0
withdraw_free(who, value) ==
  [free_balance EXCEPT ![who] = (@ - value) - withdraw_dust(who, value)]

\* ------------------------------------------------------------ era clock
\* the boundary test without the start-up case of era 0
IsEraBoundary_no_genesis(n) ==
  (n % BlockPerEra = 1) \/ force_era = "ForceNew"

\* the boundary test comparing the remainder to 0
IsEraBoundary_last_block(n) ==
  (n % BlockPerEra = 0) \/ force_era = "ForceNew" \/ current_era = 0

\* the test of on_initialize(n) for starting a new era
IsEraBoundary(n) ==
  (n % BlockPerEra = 1) \/ force_era = "ForceNew" \/ current_era = 0

NewDapiStakingEra(e) == [name |-> "NewDapiStakingEra", era |-> e]

\* an era index that is not advanced
next_era_of_same(previous_era) == previous_era

\* let next_era = previous_era + 1
next_era_of(previous_era) == previous_era + 1

\* forcing that is never cleared
force_era_after_kept(force_new_era) == force_era

\* if force_new_era { ForceEra::put(Forcing::ForceNone) }
force_era_after(force_new_era) == IF force_new_era THEN "ForceNone" ELSE force_era

\* Hooks::on_initialize(now), run by the runtime at the start of each block.
on_initialize ==
  /\ pc \in {"genesis", "extrinsics"}
  /\ LET n == IF pc = "genesis" THEN now ELSE now + 1
         force_new_era == force_era = "ForceNew"
         previous_era == current_era
     IN /\ n <= MaxBlock
        /\ now' = n
        /\ IF IsEraBoundary(n)
           THEN LET next_era == next_era_of(previous_era)
                    reward == block_reward_accumulator
                IN /\ current_era' = next_era
                   /\ block_reward_accumulator' = 0
                   /\ era_reward_and_stake' =
                        reward_balance_snapshot(era_reward_and_stake, previous_era, reward)
                   /\ force_era' = force_era_after(force_new_era)
                   /\ events' = <<NewDapiStakingEra(next_era)>>
                   /\ hist' = [hist EXCEPT !.last_boundary = n,
                                           !.last_forced = force_new_era,
                                           !.forced_at_boundary = hist.forced]
           ELSE /\ UNCHANGED <<current_era, block_reward_accumulator,
                               era_reward_and_stake, force_era, hist>>
                /\ events' = <<>>
  /\ pc' = "timestamp"
  /\ result' = "Ok"
  /\ UNCHANGED <<pool_era_stake, ledger, currencyVars, registryVars>>

\* a sink that credits the pool account without accumulating, like the
\* handler sketched in the block-reward pallet's documentation
on_nonzero_unbalanced_resolve_only(amount, issuance) ==
  /\ block_reward_accumulator' = block_reward_accumulator
  /\ free_balance' = resolve_creating_free(PoolAccount, amount)
  /\ total_issuance' = resolve_creating_issuance(PoolAccount, amount, issuance)

\* OnUnbalanced::on_nonzero_unbalanced(block_reward)
on_nonzero_unbalanced(amount, issuance) ==
  /\ block_reward_accumulator' = block_reward_accumulator + amount
  /\ free_balance' = resolve_creating_free(PoolAccount, amount)
  /\ total_issuance' = resolve_creating_issuance(PoolAccount, amount, issuance)

\* OnTimestampSet::on_timestamp_set of the block-reward pallet, run once per
\* block by the timestamp inherent.
on_timestamp_set ==
  /\ pc = "timestamp"
  /\ LET inflation == RewardAmount
     IN IF inflation > 0
        THEN on_nonzero_unbalanced(inflation, total_issuance + inflation)
        ELSE UNCHANGED <<block_reward_accumulator, free_balance, total_issuance>>
  /\ pc' = "extrinsics"
  /\ events' = <<>>
  /\ result' = "Ok"
  /\ UNCHANGED <<now, current_era, force_era, era_reward_and_stake,
                 pool_era_stake, ledger, locks, hist, registryVars>>

\* ForceEra::put(Forcing::ForceNew), as the forcing test does.
force_era_put ==
  /\ pc = "extrinsics"
  /\ force_era' = "ForceNew"
  /\ hist' = [hist EXCEPT !.forced = @ + 1]
  /\ events' = <<>>
  /\ result' = "Ok"
  /\ UNCHANGED <<now, pc, current_era, block_reward_accumulator,
                 era_reward_and_stake, pool_era_stake, ledger, currencyVars,
                 registryVars>>

\* the forcing of an era, at most MaxForce times in a run
force_new_era == hist.forced < MaxForce /\ force_era_put

\* ----------------------------------------------------------- register
NewPool(pool_id) == [name |-> "NewPool", pool |-> pool_id]

\* register(origin, pool_id): root registers a pool as a staking target
register(origin, pool_id) ==
  /\ pc = "extrinsics"
  /\ IF origin # Root
     THEN /\ result' = "BadOrigin"
          /\ events' = <<>>
          /\ UNCHANGED registered_pool
     ELSE /\ registered_pool' = registered_pool \cup {pool_id}
          /\ events' = <<NewPool(pool_id)>>
          /\ result' = "Ok"
  /\ UNCHANGED <<now, pc, stakingVars, currencyVars, hist, reserved_balance,
                 chain_ids, fishermen, projects, providers, registered_providers>>

\* ------------------------------------------------------------- ledger
\* update_ledger(staker, ledger): the Ledger map afterwards
update_ledger_map(staker, l) ==
  IF l.locked = 0 /\ l.unbonding_info = <<>>
  THEN Remove(ledger, staker)
  ELSE Insert(ledger, staker, l)
\* an update_ledger that leaves the lock of an emptied ledger in place
update_ledger_locks_kept(staker, l) ==
  IF l.locked = 0 /\ l.unbonding_info = <<>>
  THEN locks
  ELSE Insert(locks, staker, l.locked)

\* update_ledger(staker, ledger): the STAKING_ID locks afterwards
\* (Currency::set_lock ignores an amount of zero)
update_ledger_locks(staker, l) ==
  IF l.locked = 0 /\ l.unbonding_info = <<>>
  THEN Remove(locks, staker)
  ELSE IF l.locked = 0 THEN locks ELSE Insert(locks, staker, l.locked)

BondAndStake(staker, pool_id, value) ==
  [name |-> "BondAndStake", who |-> staker, pool |-> pool_id, amount |-> value]

\* a stake that rejects a request above what is free instead of clamping it
value_to_stake_rejecting(staker, value) ==
  LET free == saturating_sub(free_balance[staker], MinimumRemainingAmount)
      available_balance == saturating_sub(free, ledger_of(staker).locked)
  IN IF value > available_balance THEN 0 ELSE value

\* a stake that does not take the funds already locked off the free balance
value_to_stake_ignoring_locked(staker, value) ==
  LET free == saturating_sub(free_balance[staker], MinimumRemainingAmount)
  IN Min(value, free)

\* The amount stake() will bond: the request clamped to what is free.
value_to_stake(staker, value) ==
  LET free == saturating_sub(free_balance[staker], MinimumRemainingAmount)
      available_balance == saturating_sub(free, ledger_of(staker).locked)
  IN Min(value, available_balance)

\* StakingInterface::stake(staker, pool_id, value)
stake(staker, pool_id, value) ==
  /\ pc = "extrinsics"
  /\ LET l0 == ledger_of(staker)
         v == value_to_stake(staker, value)
         info0 == staking_info(pool_id, current_era)
         l1 == [l0 EXCEPT !.locked = @ + v]
         old == IF staker \in DOMAIN info0.stakers THEN info0.stakers[staker] ELSE 0
         info1 == [info0 EXCEPT !.total = @ + v,
                                !.stakers = Insert(info0.stakers, staker, old + v)]
     IN IF v = 0
        THEN /\ result' = "StakingWithNoValue"
             /\ events' = <<>>
             /\ UNCHANGED <<stakingVars, currencyVars, hist>>
        ELSE /\ era_reward_and_stake' =
                  IF current_era \in DOMAIN era_reward_and_stake
                  THEN [era_reward_and_stake EXCEPT ![current_era].staked = @ + v]
                  ELSE era_reward_and_stake
             /\ ledger' = update_ledger_map(staker, l1)
             /\ locks' = update_ledger_locks(staker, l1)
             /\ pool_era_stake' = Insert(pool_era_stake, <<pool_id, current_era>>, info1)
             /\ events' = <<BondAndStake(staker, pool_id, v)>>
             /\ result' = "Ok"
             /\ hist' = [hist EXCEPT !.stakes = @ + 1]
             /\ UNCHANGED <<current_era, block_reward_accumulator, force_era,
                            free_balance, total_issuance>>
  /\ UNCHANGED <<now, pc, registryVars>>

\* ------------------------------------------------- unbonding (from the spec)
RECURSIVE UnbondingSum(_)
\* UnbondingQueue.sum()
UnbondingSum(q) == IF q = <<>> THEN 0 ELSE Head(q).amount + UnbondingSum(Tail(q))

\* an add that appends the chunk without looking for one of the same era
UnbondingAdd_appending(q, chunk) == q \o <<chunk>>

\* UnbondingQueue.add(chunk): merged into the chunk of the same unlock_era,
\* otherwise inserted keeping the queue sorted by unlock_era.
UnbondingAdd(q, chunk) ==
  IF \E i \in 1..Len(q) : q[i].unlock_era = chunk.unlock_era
  THEN [i \in 1..Len(q) |-> IF q[i].unlock_era = chunk.unlock_era
                            THEN [q[i] EXCEPT !.amount = @ + chunk.amount]
                            ELSE q[i]]
  ELSE LET before == SelectSeq(q, LAMBDA c : c.unlock_era < chunk.unlock_era)
           after  == SelectSeq(q, LAMBDA c : c.unlock_era > chunk.unlock_era)
       IN before \o <<chunk>> \o after

\* a partition that takes a chunk for matured one era early
UnbondingMature_early(q, era) == SelectSeq(q, LAMBDA c : c.unlock_era <= era + 1)
\* UnbondingQueue.partition(era): the chunks that have matured by era
UnbondingMature(q, era) == SelectSeq(q, LAMBDA c : c.unlock_era <= era)
\* UnbondingQueue.partition(era): the chunks still pending after era
UnbondingPending(q, era) == SelectSeq(q, LAMBDA c : c.unlock_era > era)

Unstake(staker, pool_id, value) ==
  [name |-> "Unstake", who |-> staker, pool |-> pool_id, amount |-> value]
Withdrawn(staker, value) == [name |-> "Withdrawn", who |-> staker, amount |-> value]

\* an unstake that takes the requested amount even when dust would remain
value_to_unstake_exact(current, value) == Min(current, value)

\* The amount unstake() moves to the unbonding queue: the whole position when
\* less than the minimum staking amount would remain.
value_to_unstake(current, value) ==
  IF saturating_sub(current, value) < MinimumStakingAmount THEN current ELSE value

\* The error unstake() returns, or "Ok"
unstake_result(staker, pool_id, value) ==
  LET info == staking_info(pool_id, current_era)
      q == ledger_of(staker).unbonding_info
      unlock_era == current_era + UnbondingPeriod
  IN IF pool_id \notin registered_pool THEN "NotOperatedProvider"
     ELSE IF staker \notin DOMAIN info.stakers THEN "NotStaked"
     ELSE IF value = 0 THEN "UnstakingWithNoValue"
     ELSE IF (\A i \in 1..Len(q) : q[i].unlock_era # unlock_era) /\ Len(q) >= MaxUnlockingChunks
          THEN "TooManyUnlockingChunks"
     ELSE "Ok"

\* an unstake that releases the amount from the locked total at once
unstake_unlocking(staker, pool_id, value) ==
  /\ pc = "extrinsics"
  /\ result' = unstake_result(staker, pool_id, value)
  /\ IF unstake_result(staker, pool_id, value) # "Ok"
     THEN /\ events' = <<>>
          /\ UNCHANGED <<stakingVars, currencyVars, hist>>
     ELSE LET info0 == staking_info(pool_id, current_era)
              l0 == ledger_of(staker)
              unbond == value_to_unstake(info0.stakers[staker], value)
              left == info0.stakers[staker] - unbond
              info1 == [info0 EXCEPT !.total = @ - unbond,
                                     !.stakers = IF left = 0
                                                 THEN Remove(info0.stakers, staker)
                                                 ELSE Insert(info0.stakers, staker, left)]
              l1 == [l0 EXCEPT !.locked = @ - unbond, !.unbonding_info =
                       UnbondingAdd(@, [amount |-> unbond,
                                        unlock_era |-> current_era + UnbondingPeriod])]
          IN /\ pool_era_stake' = Insert(pool_era_stake, <<pool_id, current_era>>, info1)
             /\ era_reward_and_stake' =
                  IF current_era \in DOMAIN era_reward_and_stake
                  THEN [era_reward_and_stake EXCEPT
                          ![current_era].staked = saturating_sub(@, unbond)]
                  ELSE era_reward_and_stake
             /\ ledger' = update_ledger_map(staker, l1)
             /\ locks' = update_ledger_locks(staker, l1)
             /\ events' = <<Unstake(staker, pool_id, unbond)>>
             /\ hist' = [hist EXCEPT !.unstakes = @ + 1]
             /\ UNCHANGED <<current_era, block_reward_accumulator, force_era,
                            free_balance, total_issuance>>
  /\ UNCHANGED <<now, pc, registryVars>>

\* unstake(staker, provider_id, value)
unstake(staker, pool_id, value) ==
  /\ pc = "extrinsics"
  /\ result' = unstake_result(staker, pool_id, value)
  /\ IF unstake_result(staker, pool_id, value) # "Ok"
     THEN /\ events' = <<>>
          /\ UNCHANGED <<stakingVars, currencyVars, hist>>
     ELSE LET info0 == staking_info(pool_id, current_era)
              l0 == ledger_of(staker)
              unbond == value_to_unstake(info0.stakers[staker], value)
              left == info0.stakers[staker] - unbond
              info1 == [info0 EXCEPT !.total = @ - unbond,
                                     !.stakers = IF left = 0
                                                 THEN Remove(info0.stakers, staker)
                                                 ELSE Insert(info0.stakers, staker, left)]
              l1 == [l0 EXCEPT !.unbonding_info =
                       UnbondingAdd(@, [amount |-> unbond,
                                        unlock_era |-> current_era + UnbondingPeriod])]
          IN /\ pool_era_stake' = Insert(pool_era_stake, <<pool_id, current_era>>, info1)
             /\ era_reward_and_stake' =
                  IF current_era \in DOMAIN era_reward_and_stake
                  THEN [era_reward_and_stake EXCEPT
                          ![current_era].staked = saturating_sub(@, unbond)]
                  ELSE era_reward_and_stake
             /\ ledger' = update_ledger_map(staker, l1)
             /\ locks' = update_ledger_locks(staker, l1)
             /\ events' = <<Unstake(staker, pool_id, unbond)>>
             /\ hist' = [hist EXCEPT !.unstakes = @ + 1]
             /\ UNCHANGED <<current_era, block_reward_accumulator, force_era,
                            free_balance, total_issuance>>
  /\ UNCHANGED <<now, pc, registryVars>>

\* withdraw_unbonded(staker)
withdraw_unbonded(staker) ==
  /\ pc = "extrinsics"
  /\ LET l0 == ledger_of(staker)
         W == UnbondingSum(UnbondingMature(l0.unbonding_info, current_era))
         l1 == [locked |-> l0.locked - W,
                unbonding_info |-> UnbondingPending(l0.unbonding_info, current_era)]
     IN IF W = 0
        THEN /\ result' = "NothingToWithdraw"
             /\ events' = <<>>
             /\ UNCHANGED <<ledger, locks>>
        ELSE /\ result' = "Ok"
             /\ ledger' = update_ledger_map(staker, l1)
             /\ locks' = update_ledger_locks(staker, l1)
             /\ events' = <<Withdrawn(staker, W)>>
  /\ UNCHANGED <<now, pc, current_era, block_reward_accumulator, force_era,
                 era_reward_and_stake, pool_era_stake, free_balance,
                 total_issuance, hist, registryVars>>

\* ---------------------------------------------------------------- claim
RECURSIVE SortedSeq(_)
\* the keys of a BTreeMap in iteration order
SortedSeq(S) ==
  IF S = {} THEN <<>> ELSE <<SetMin(S)>> \o SortedSeq(S \ {SetMin(S)})

Reward(staker, pool_id, era, amount) ==
  [name |-> "Reward", who |-> staker, pool |-> pool_id, era |-> era, amount |-> amount]

\* The pool's share of an era: Perbill::from_rational(total, staked) * rewards
dapi_pool_reward(info, ras) ==
  perbill_mul(from_rational(info.total, ras.staked), ras.rewards)

RECURSIVE claim_events(_, _, _, _, _, _)
\* The loop over the stakers: each iteration splits the staker's share off
\* the withdrawn imbalance and deposits the Reward event.
claim_events(order, info, pool_id, era, stakers_total_reward, stakers_reward) ==
  IF order = <<>> THEN <<>>
  ELSE LET staker == Head(order)
           ratio == from_rational(info.stakers[staker], info.total)
           reward == Min(perbill_mul(ratio, stakers_total_reward), stakers_reward)
       IN <<Reward(staker, pool_id, era, reward)>> \o
          claim_events(Tail(order), info, pool_id, era, stakers_total_reward,
                       stakers_reward - reward)

\* claim() without the ensure! on claimed_rewards
claim_result_unguarded(origin, pool_id, era) ==
  LET era_low_bound == saturating_sub(current_era, HistoryDepth)
      info == staking_info(pool_id, era)
  IN IF origin.kind # "Signed" THEN "BadOrigin"
     ELSE IF ~(era < current_era /\ era >= era_low_bound) THEN "EraOutOfBounds"
     ELSE IF DOMAIN info.stakers = {} THEN "NotStaked"
     ELSE IF era \notin DOMAIN era_reward_and_stake THEN "UnknownEraReward"
     ELSE IF ~withdraw_ok(PoolAccount, dapi_pool_reward(info, era_reward_and_stake[era]))
          THEN "InsufficientBalance"
     ELSE "Ok"

\* claim() with a window that lets the current era in
claim_result_current_era(origin, pool_id, era) ==
  LET era_low_bound == saturating_sub(current_era, HistoryDepth)
      info == staking_info(pool_id, era)
  IN IF origin.kind # "Signed" THEN "BadOrigin"
     ELSE IF ~(era <= current_era /\ era >= era_low_bound) THEN "EraOutOfBounds"
     ELSE IF info.claimed_rewards # 0 THEN "AlreadyClaimedInThisEra"
     ELSE IF DOMAIN info.stakers = {} THEN "NotStaked"
     ELSE IF era \notin DOMAIN era_reward_and_stake THEN "UnknownEraReward"
     ELSE IF ~withdraw_ok(PoolAccount, dapi_pool_reward(info, era_reward_and_stake[era]))
          THEN "InsufficientBalance"
     ELSE "Ok"

\* The error claim() returns, or "Ok"
claim_result(origin, pool_id, era) ==
  LET era_low_bound == saturating_sub(current_era, HistoryDepth)
      info == staking_info(pool_id, era)
  IN IF origin.kind # "Signed" THEN "BadOrigin"
     ELSE IF ~(era < current_era /\ era >= era_low_bound) THEN "EraOutOfBounds"
     ELSE IF info.claimed_rewards # 0 THEN "AlreadyClaimedInThisEra"
     ELSE IF DOMAIN info.stakers = {} THEN "NotStaked"
     ELSE IF era \notin DOMAIN era_reward_and_stake THEN "UnknownEraReward"
     ELSE IF ~withdraw_ok(PoolAccount, dapi_pool_reward(info, era_reward_and_stake[era]))
          THEN "InsufficientBalance"
     ELSE "Ok"

\* Call::claim(origin, pool_id, era)
claim(origin, pool_id, era) ==
  /\ pc = "extrinsics"
  /\ result' = claim_result(origin, pool_id, era)
  /\ IF claim_result(origin, pool_id, era) # "Ok"
     THEN /\ events' = <<>>
          /\ UNCHANGED <<stakingVars, currencyVars>>
     ELSE LET info == staking_info(pool_id, era)
              reward == dapi_pool_reward(info, era_reward_and_stake[era])
          IN /\ free_balance' = withdraw_free(PoolAccount, reward)
             \* the withdrawn imbalance and every part split off it are
             \* dropped, which takes them out of the issuance
             /\ total_issuance' = total_issuance - reward - withdraw_dust(PoolAccount, reward)
             /\ events' = claim_events(SortedSeq(DOMAIN info.stakers), info, pool_id, era,
                                       reward, reward)
             /\ pool_era_stake' = Insert(pool_era_stake, <<pool_id, era>>,
                                         [info EXCEPT !.claimed_rewards = reward])
             /\ UNCHANGED <<current_era, block_reward_accumulator, force_era,
                            era_reward_and_stake, ledger, locks>>
  /\ UNCHANGED <<now, pc, hist, registryVars>>

\* ---------------------------------------------------------- dapi registry
ChainIdMaxLength == 64
RegisterDeposit == 10
\* calculate_quota divides by 10^15; the model keeps genesis balances in the
\* thousands, so the divisor is scaled down with them.
QUOTA_SCALE == 1000

LongChainId == "an-identifier-of-a-chain-that-is-one-byte-longer-than-64-bytes-is"
ChainIdInputs == {"eth", LongChainId}

ProjectRegistered(project_id, consumer, chain_id, quota) ==
  [name |-> "ProjectRegistered", project_id |-> project_id, consumer |-> consumer,
   chain_id |-> chain_id, quota |-> quota]
ProjectDeposited(consumer, project_id, quota) ==
  [name |-> "ProjectDeposited", project_id |-> project_id, consumer |-> consumer,
   quota |-> quota]
ProjectUsageReported(project_id, usage) ==
  [name |-> "ProjectUsageReported", provider_id |-> project_id, usage |-> usage]
ProjectReachedQuota(project_id) ==
  [name |-> "ProjectReachedQuota", project_id |-> project_id]
ProviderRegistered(provider_id, provider_type, operator, chain_id) ==
  [name |-> "ProviderRegistered", provider_id |-> provider_id,
   provider_type |-> provider_type, operator |-> operator, chain_id |-> chain_id]
ProviderUnregistered(provider_id, provider_type) ==
  [name |-> "ProviderUnregistered", provider_id |-> provider_id,
   provider_type |-> provider_type]
ProviderPerformanceReported(provider_id, provider_type, requests, success_rate, average_latency) ==
  [name |-> "ProviderPerformanceReported", provider_id |-> provider_id,
   provider_type |-> provider_type, requests |-> requests,
   success_rate |-> success_rate, average_latency |-> average_latency]
ChainIdAdded(chain_id) == [name |-> "ChainIdAdded", chain_id |-> chain_id]
ChainIdRemoved(chain_id) == [name |-> "ChainIdRemoved", chain_id |-> chain_id]
FishermanAdded(account_id) == [name |-> "FishermanAdded", account_id |-> account_id]
FishermanRemoved(account_id) == [name |-> "FishermanRemoved", account_id |-> account_id]

\* chain_id.try_into(): a chain id fits the bounded vector
bounded_chain_id(chain_id) == Len(chain_id) <= ChainIdMaxLength

\* calculate_quota(amount)
calculate_quota(amount) == amount \div QUOTA_SCALE

\* Currency::withdraw(who, value, TRANSFER, KeepAlive): the error, or "Ok"
withdraw_keep_alive(who, value) ==
  IF value = 0 THEN "Ok"
  ELSE IF free_balance[who] < value THEN "InsufficientBalance"
  ELSE IF /\ free_balance[who] - value + reserved_balance[who] < ExistentialDeposit
          /\ free_balance[who] + reserved_balance[who] >= ExistentialDeposit
       THEN "KeepAlive"
  ELSE IF who \in DOMAIN locks /\ free_balance[who] - value < locks[who]
       THEN "LiquidityRestrictions"
  ELSE "Ok"

\* the registry storage that an action on projects leaves alone
exceptProjects == <<registered_pool, reserved_balance, chain_ids, fishermen, providers,
                    registered_providers>>

\* The error register_project() returns, or "Ok"
register_project_result(origin, project_id, chain_id, deposit) ==
  IF origin.kind # "Signed" THEN "BadOrigin"
  ELSE IF project_id \in DOMAIN projects THEN "AlreadyExist"
  ELSE IF ~bounded_chain_id(chain_id) THEN "BadChainId"
  ELSE IF chain_id \notin chain_ids THEN "BadChainId"
  ELSE withdraw_keep_alive(origin.who, deposit)

\* register_project(origin, project_id, chain_id, deposit); the payment is
\* handed to OnProjectPayment = (), which drops it
register_project(origin, project_id, chain_id, deposit) ==
  /\ pc = "extrinsics"
  /\ result' = register_project_result(origin, project_id, chain_id, deposit)
  /\ IF register_project_result(origin, project_id, chain_id, deposit) # "Ok"
     THEN /\ events' = <<>>
          /\ UNCHANGED <<projects, free_balance, total_issuance>>
     ELSE LET consumer == origin.who
              quota == calculate_quota(deposit)
          IN /\ free_balance' = [free_balance EXCEPT ![consumer] = @ - deposit]
             /\ total_issuance' = total_issuance - deposit
             /\ projects' = Insert(projects, project_id,
                                   [consumer |-> consumer, chain_id |-> chain_id,
                                    quota |-> quota, usage |-> 0])
             /\ events' = <<ProjectRegistered(project_id, consumer, chain_id, quota)>>
  /\ UNCHANGED <<now, pc, stakingVars, locks, hist, exceptProjects>>

\* The error deposit_project() returns, or "Ok"
deposit_project_result(origin, project_id, deposit) ==
  IF origin.kind # "Signed" THEN "BadOrigin"
  ELSE IF project_id \notin DOMAIN projects THEN "NotExist"
  ELSE IF projects[project_id].consumer # origin.who THEN "NotOwner"
  ELSE withdraw_keep_alive(origin.who, deposit)

\* deposit_project(origin, project_id, deposit)
deposit_project(origin, project_id, deposit) ==
  /\ pc = "extrinsics"
  /\ result' = deposit_project_result(origin, project_id, deposit)
  /\ IF deposit_project_result(origin, project_id, deposit) # "Ok"
     THEN /\ events' = <<>>
          /\ UNCHANGED <<projects, free_balance, total_issuance>>
     ELSE LET consumer == origin.who
              quota == projects[project_id].quota + calculate_quota(deposit)
          IN /\ free_balance' = [free_balance EXCEPT ![consumer] = @ - deposit]
             /\ total_issuance' = total_issuance - deposit
             /\ projects' = [projects EXCEPT ![project_id].quota = quota]
             /\ events' = <<ProjectDeposited(consumer, project_id, quota)>>
  /\ UNCHANGED <<now, pc, stakingVars, locks, hist, exceptProjects>>

\* a submit_project_usage that takes the report of any signed account
submit_project_usage_result_ungated(origin, project_id) ==
  IF origin.kind # "Signed" THEN "BadOrigin"
  ELSE IF project_id \notin DOMAIN projects THEN "NotExist"
  ELSE "Ok"

\* The error submit_project_usage() returns, or "Ok"
submit_project_usage_result(origin, project_id) ==
  IF origin.kind # "Signed" THEN "BadOrigin"
  ELSE IF origin.who \notin fishermen THEN "PermissionDenied"
  ELSE IF project_id \notin DOMAIN projects THEN "NotExist"
  ELSE "Ok"

\* a usage counter that is not capped at the quota
usage_after_uncapped(project, usage) == project.usage + usage

\* the usage of a project after a report: capped at the quota
usage_after(project, usage) == Min(project.usage + usage, project.quota)

\* submit_project_usage(origin, project_id, usage)
submit_project_usage(origin, project_id, usage) ==
  /\ pc = "extrinsics"
  /\ result' = submit_project_usage_result(origin, project_id)
  /\ IF submit_project_usage_result(origin, project_id) # "Ok"
     THEN /\ events' = <<>>
          /\ UNCHANGED projects
     ELSE LET project == projects[project_id]
              new_usage == usage_after(project, usage)
          IN /\ events' = IF new_usage = project.quota
                          THEN <<ProjectReachedQuota(project_id)>>
                          ELSE <<ProjectUsageReported(project_id, usage)>>
             /\ projects' = [projects EXCEPT ![project_id].usage = new_usage]
  /\ UNCHANGED <<now, pc, stakingVars, currencyVars, hist, exceptProjects>>

\* --------------- provider registration in the staking pallet (from the spec)
\* Currency::reserve(who, value): the error, or "Ok"
reserve_result(who, value) ==
  IF value = 0 THEN "Ok"
  ELSE IF free_balance[who] < value THEN "InsufficientBalance"
  ELSE IF who \in DOMAIN locks /\ free_balance[who] - value < locks[who]
       THEN "LiquidityRestrictions"
  ELSE "Ok"

\* The event of the stake engine in the revision the tests are written for
Stake(staker, provider_id, value) ==
  [name |-> "Stake", who |-> staker, pool |-> provider_id, amount |-> value]

\* a self-stake measured against the balance before the deposit is reserved
self_stake_before_reserve(operator, deposit) ==
  LET free == saturating_sub(free_balance[operator], MinimumRemainingAmount)
      available_balance == saturating_sub(free, ledger_of(operator).locked)
  IN Min(deposit - RegisterDeposit, available_balance)

\* The amount the initial self-stake bonds once the register deposit is reserved
self_stake(operator, deposit) ==
  LET free == saturating_sub(free_balance[operator] - RegisterDeposit,
                             MinimumRemainingAmount)
      available_balance == saturating_sub(free, ledger_of(operator).locked)
  IN Min(deposit - RegisterDeposit, available_balance)

\* The error Staking::register() returns, or "Ok"
Staking_register_result(operator, provider_id, deposit) ==
  IF provider_id \in registered_pool \/ provider_id \in DOMAIN registered_providers
  THEN "AlreadyRegisteredProvider"
  ELSE IF deposit < RegisterDeposit THEN "InsufficientValue"
  ELSE IF reserve_result(operator, RegisterDeposit) # "Ok"
       THEN reserve_result(operator, RegisterDeposit)
  ELSE IF self_stake(operator, deposit) = 0 THEN "StakingWithNoValue"
  ELSE "Ok"

\* Staking::register(operator, provider_id, deposit), when it succeeds: reserve
\* the register deposit, stake the rest on the provider, record the provider
Staking_register(operator, provider_id, deposit) ==
  LET v == self_stake(operator, deposit)
      l0 == ledger_of(operator)
      l1 == [l0 EXCEPT !.locked = @ + v]
      info0 == staking_info(provider_id, current_era)
      old == IF operator \in DOMAIN info0.stakers THEN info0.stakers[operator] ELSE 0
      info1 == [info0 EXCEPT !.total = @ + v,
                             !.stakers = Insert(info0.stakers, operator, old + v)]
  IN /\ reserved_balance' = [reserved_balance EXCEPT ![operator] = @ + RegisterDeposit]
     /\ free_balance' = [free_balance EXCEPT ![operator] = @ - RegisterDeposit]
     /\ era_reward_and_stake' =
          IF current_era \in DOMAIN era_reward_and_stake
          THEN [era_reward_and_stake EXCEPT ![current_era].staked = @ + v]
          ELSE era_reward_and_stake
     /\ ledger' = update_ledger_map(operator, l1)
     /\ locks' = update_ledger_locks(operator, l1)
     /\ pool_era_stake' = Insert(pool_era_stake, <<provider_id, current_era>>, info1)
     /\ registered_pool' = registered_pool \cup {provider_id}
     /\ registered_providers' =
          Insert(registered_providers, provider_id,
                 [operator |-> operator, state |-> Registered])

\* The error Staking::unregister() returns, or "Ok"
Staking_unregister_result(provider_id) ==
  IF provider_id \notin DOMAIN registered_providers THEN "NotOperatedProvider"
  ELSE IF registered_providers[provider_id].state # Registered
       THEN "NotOperatedProvider"
  ELSE "Ok"

\* a Staking::unregister() that gives the register deposit back at once
Staking_unregister_unreserving(provider_id) ==
  LET operator == registered_providers[provider_id].operator
      back == Min(reserved_balance[operator], RegisterDeposit)
  IN /\ registered_pool' = registered_pool \ {provider_id}
     /\ registered_providers' =
          [registered_providers EXCEPT ![provider_id].state =
             Unregistered(current_era, current_era + UnbondingPeriod)]
     /\ reserved_balance' = [reserved_balance EXCEPT ![operator] = @ - back]
     /\ free_balance' = [free_balance EXCEPT ![operator] = @ + back]

\* Staking::unregister(provider_id), when it succeeds: the provider stops
\* being operated and is marked Unregistered from the current era on, with
\* the era its stakes become withdrawable; the register deposit of its
\* operator stays reserved, and no stake is touched
Staking_unregister(provider_id) ==
  /\ registered_pool' = registered_pool \ {provider_id}
  /\ registered_providers' =
       [registered_providers EXCEPT ![provider_id].state =
          Unregistered(current_era, current_era + UnbondingPeriod)]
  /\ UNCHANGED <<reserved_balance, free_balance>>

\* ---------------------------------------------------- dapi: providers
\* a register_provider() that takes the id of an Unregistered provider as free
register_provider_result_reviving(origin, provider_id, chain_id, deposit) ==
  IF origin.kind # "Signed" THEN "BadOrigin"
  ELSE IF provider_id \in DOMAIN providers /\ providers[provider_id].state = "Registered"
       THEN "AlreadyExist"
  ELSE IF ~bounded_chain_id(chain_id) THEN "BadChainId"
  ELSE IF chain_id \notin chain_ids THEN "BadChainId"
  ELSE Staking_register_result(origin.who, provider_id, deposit)

\* The error register_provider() returns, or "Ok"
register_provider_result(origin, provider_id, chain_id, deposit) ==
  IF origin.kind # "Signed" THEN "BadOrigin"
  ELSE IF provider_id \in DOMAIN providers THEN "AlreadyExist"
  ELSE IF ~bounded_chain_id(chain_id) THEN "BadChainId"
  ELSE IF chain_id \notin chain_ids THEN "BadChainId"
  ELSE Staking_register_result(origin.who, provider_id, deposit)

\* register_provider(origin, provider_id, provider_type, chain_id, deposit)
register_provider(origin, provider_id, provider_type, chain_id, deposit) ==
  /\ pc = "extrinsics"
  /\ result' = register_provider_result(origin, provider_id, chain_id, deposit)
  /\ IF register_provider_result(origin, provider_id, chain_id, deposit) # "Ok"
     THEN /\ events' = <<>>
          /\ UNCHANGED <<era_reward_and_stake, pool_era_stake, ledger, locks,
                         free_balance, registered_pool, reserved_balance, providers,
                         registered_providers>>
     ELSE /\ Staking_register(origin.who, provider_id, deposit)
          /\ providers' = Insert(providers, provider_id,
                                 [provider_type |-> provider_type,
                                  operator |-> origin.who, chain_id |-> chain_id,
                                  state |-> "Registered"])
          /\ events' = <<Stake(origin.who, provider_id,
                               self_stake(origin.who, deposit)),
                         ProviderRegistered(provider_id, provider_type, origin.who,
                                            chain_id)>>
  /\ UNCHANGED <<now, pc, current_era, block_reward_accumulator, force_era,
                 total_issuance, hist, chain_ids, fishermen, projects>>

\* an unregister_provider() that accepts any signed caller
unregister_provider_result_any_caller(origin, provider_id) ==
  IF origin.kind # "Signed" THEN "BadOrigin"
  ELSE IF provider_id \notin DOMAIN providers THEN "NotExist"
  ELSE IF providers[provider_id].state # "Registered" THEN "NotOperatedProvider"
  ELSE Staking_unregister_result(provider_id)

\* The error unregister_provider() returns, or "Ok"
unregister_provider_result(origin, provider_id) ==
  IF origin.kind # "Signed" THEN "BadOrigin"
  ELSE IF provider_id \notin DOMAIN providers THEN "NotExist"
  ELSE IF providers[provider_id].operator # origin.who THEN "NotOwner"
  ELSE IF providers[provider_id].state # "Registered" THEN "NotOperatedProvider"
  ELSE Staking_unregister_result(provider_id)

\* an unregister_provider that marks the provider before it checks the owner
unregister_provider_marking_first(origin, provider_id) ==
  /\ pc = "extrinsics"
  /\ result' = unregister_provider_result(origin, provider_id)
  /\ IF unregister_provider_result(origin, provider_id) = "NotOwner"
     THEN /\ events' = <<>>
          /\ providers' = [providers EXCEPT ![provider_id].state = "Unregistered"]
          /\ UNCHANGED <<free_balance, registered_pool, registered_providers, reserved_balance>>
     ELSE IF unregister_provider_result(origin, provider_id) # "Ok"
     THEN /\ events' = <<>>
          /\ UNCHANGED <<free_balance, registered_pool, registered_providers,
                         reserved_balance, providers>>
     ELSE /\ Staking_unregister(provider_id)
          /\ providers' = [providers EXCEPT ![provider_id].state = "Unregistered"]
          /\ events' = <<ProviderUnregistered(provider_id,
                                              providers[provider_id].provider_type)>>
  /\ UNCHANGED <<now, pc, stakingVars, locks, total_issuance, hist, chain_ids,
                 fishermen, projects>>

\* unregister_provider(origin, provider_id)
unregister_provider(origin, provider_id) ==
  /\ pc = "extrinsics"
  /\ result' = unregister_provider_result(origin, provider_id)
  /\ IF unregister_provider_result(origin, provider_id) # "Ok"
     THEN /\ events' = <<>>
          /\ UNCHANGED <<free_balance, registered_pool, registered_providers,
                         reserved_balance, providers>>
     ELSE /\ Staking_unregister(provider_id)
          /\ providers' = [providers EXCEPT ![provider_id].state = "Unregistered"]
          /\ events' = <<ProviderUnregistered(provider_id,
                                              providers[provider_id].provider_type)>>
  /\ UNCHANGED <<now, pc, stakingVars, locks, total_issuance, hist, chain_ids,
                 fishermen, projects>>

\* The error submit_provider_report() returns, or "Ok"
submit_provider_report_result(origin, provider_id) ==
  IF origin.kind # "Signed" THEN "BadOrigin"
  ELSE IF origin.who \notin fishermen THEN "PermissionDenied"
  ELSE IF provider_id \notin DOMAIN providers THEN "NotExist"
  ELSE IF providers[provider_id].state # "Registered" THEN "NotOperatedProvider"
  ELSE Staking_unregister_result(provider_id)

\* submit_provider_report(origin, provider_id, requests, success_rate,
\* average_latency)
submit_provider_report(origin, provider_id, requests, success_rate, average_latency) ==
  /\ pc = "extrinsics"
  /\ result' = submit_provider_report_result(origin, provider_id)
  /\ IF submit_provider_report_result(origin, provider_id) # "Ok"
     THEN /\ events' = <<>>
          /\ UNCHANGED <<free_balance, registered_pool, registered_providers,
                         reserved_balance, providers>>
     ELSE /\ Staking_unregister(provider_id)
          /\ providers' = [providers EXCEPT ![provider_id].state = "Unregistered"]
          /\ events' = <<ProviderPerformanceReported(
                           provider_id, providers[provider_id].provider_type,
                           requests, success_rate, average_latency)>>
  /\ UNCHANGED <<now, pc, stakingVars, locks, total_issuance, hist, chain_ids,
                 fishermen, projects>>

\* ------------------------------------------- access control and chain ids
\* The error add_chain_id() returns, or "Ok"; the outcome of ensure_root is
\* discarded (let _ = ensure_root(origin);)
add_chain_id_result(origin, chain_id) ==
  IF ~bounded_chain_id(chain_id) THEN "BadChainId"
  ELSE IF chain_id \in chain_ids THEN "AlreadyExist"
  ELSE "Ok"

\* add_chain_id(origin, chain_id)
add_chain_id(origin, chain_id) ==
  /\ pc = "extrinsics"
  /\ result' = add_chain_id_result(origin, chain_id)
  /\ IF add_chain_id_result(origin, chain_id) # "Ok"
     THEN events' = <<>> /\ UNCHANGED chain_ids
     ELSE /\ chain_ids' = chain_ids \cup {chain_id}
          /\ events' = <<ChainIdAdded(chain_id)>>
  /\ UNCHANGED <<now, pc, stakingVars, currencyVars, hist, registered_pool,
                 registered_providers, reserved_balance,
                 fishermen, projects, providers>>

\* The error remove_chain_id() returns, or "Ok"
remove_chain_id_result(origin, chain_id) ==
  IF ~bounded_chain_id(chain_id) THEN "BadChainId"
  ELSE IF chain_id \notin chain_ids THEN "NotExist"
  ELSE "Ok"

\* remove_chain_id(origin, chain_id)
remove_chain_id(origin, chain_id) ==
  /\ pc = "extrinsics"
  /\ result' = remove_chain_id_result(origin, chain_id)
  /\ IF remove_chain_id_result(origin, chain_id) # "Ok"
     THEN events' = <<>> /\ UNCHANGED chain_ids
     ELSE /\ chain_ids' = chain_ids \ {chain_id}
          /\ events' = <<ChainIdRemoved(chain_id)>>
  /\ UNCHANGED <<now, pc, stakingVars, currencyVars, hist, registered_pool,
                 registered_providers, reserved_balance,
                 fishermen, projects, providers>>

\* an add_fisherman that accepts an account that is a fisherman already
add_fisherman_result_lenient(origin, account_id) == "Ok"

\* The error add_fisherman() returns, or "Ok"
add_fisherman_result(origin, account_id) ==
  IF account_id \in fishermen THEN "AlreadyExist" ELSE "Ok"

\* add_fisherman(origin, account_id)
add_fisherman(origin, account_id) ==
  /\ pc = "extrinsics"
  /\ result' = add_fisherman_result(origin, account_id)
  /\ IF add_fisherman_result(origin, account_id) # "Ok"
     THEN events' = <<>> /\ UNCHANGED fishermen
     ELSE /\ fishermen' = fishermen \cup {account_id}
          /\ events' = <<FishermanAdded(account_id)>>
  /\ UNCHANGED <<now, pc, stakingVars, currencyVars, hist, registered_pool,
                 registered_providers, reserved_balance,
                 chain_ids, projects, providers>>

\* The error remove_fisherman() returns, or "Ok"
remove_fisherman_result(origin, account_id) ==
  IF account_id \notin fishermen THEN "NotExist" ELSE "Ok"

\* remove_fisherman(origin, account_id)
remove_fisherman(origin, account_id) ==
  /\ pc = "extrinsics"
  /\ result' = remove_fisherman_result(origin, account_id)
  /\ IF remove_fisherman_result(origin, account_id) # "Ok"
     THEN events' = <<>> /\ UNCHANGED fishermen
     ELSE /\ fishermen' = fishermen \ {account_id}
          /\ events' = <<FishermanRemoved(account_id)>>
  /\ UNCHANGED <<now, pc, stakingVars, currencyVars, hist, registered_pool,
                 registered_providers, reserved_balance,
                 chain_ids, projects, providers>>

\* ------------------------------------------------------- specification
\* Blocks of the runtime with calls by the stakers on two pools.
Next ==
  \/ on_initialize
  \/ on_timestamp_set
  \/ force_new_era
  \/ \E staker \in Stakers, pool_id \in Pools, value \in StakeValues :
       hist.stakes < MaxStakes /\ stake(staker, pool_id, value)
  \/ \E origin \in Origins, pool_id \in Pools, era \in 0..current_era :
       claim(origin, pool_id, era)

Spec == Init /\ [][Next]_vars

\* The same runtime from block 1 without era forcing, one staker spreading
\* stakes of 1 and 3 over three pools.
PoolsThree == {"p1", "p2", "p3"}
StakeValuesThree == {1, 3}
MaxStakesThree == 3

InitThree == Init /\ now = 1

NextThree ==
  \/ on_initialize
  \/ on_timestamp_set
  \/ \E pool_id \in PoolsThree, value \in StakeValuesThree :
       hist.stakes < MaxStakesThree /\ stake(6, pool_id, value)
  \/ \E pool_id \in PoolsThree, era \in 0..current_era :
       claim(Signed(6), pool_id, era)

SpecThree == InitThree /\ [][NextThree]_vars

\* The same runtime from block 1 with one staker who stakes, unstakes and
\* withdraws on two pools; one forced era lets the unbonding period elapse.
MaxUnstakes == 2
StakeValuesUnbond == {5}
UnstakeValues == {2}

InitUnbond == Genesis(Pools) /\ now = 1

NextUnbond ==
  \/ on_initialize
  \/ on_timestamp_set
  \/ force_new_era
  \/ \E pool_id \in Pools, value \in StakeValuesUnbond :
       hist.stakes < MaxStakes /\ stake(6, pool_id, value)
  \/ \E pool_id \in Pools, value \in UnstakeValues :
       hist.unstakes < MaxUnstakes /\ unstake(6, pool_id, value)
  \/ withdraw_unbonded(6)
  \/ \E pool_id \in Pools, era \in 0..current_era :
       claim(Signed(6), pool_id, era)

SpecUnbond == InitUnbond /\ [][NextUnbond]_vars

\* The same runtime from block 1 without era forcing, six accounts each
\* staking once on one pool.
CrowdStakers == {1, 2, 3, 4, 5, 6}
MaxStakesCrowd == 6

NextCrowd ==
  \/ on_initialize
  \/ on_timestamp_set
  \/ \E staker \in CrowdStakers, value \in StakeValues :
       /\ hist.stakes < MaxStakesCrowd
       /\ staker \notin DOMAIN ledger
       /\ stake(staker, "p1", value)

SpecCrowd == InitUnbond /\ [][NextCrowd]_vars

\* Root registering pools while one staker stakes and unstakes on them.
NextPools ==
  \/ on_initialize
  \/ on_timestamp_set
  \/ \E origin \in Origins, pool_id \in Pools : register(origin, pool_id)
  \/ \E pool_id \in Pools, value \in StakeValuesUnbond :
       hist.stakes < MaxStakes /\ stake(6, pool_id, value)
  \/ \E pool_id \in Pools, value \in UnstakeValues :
       hist.unstakes < MaxUnstakes /\ unstake(6, pool_id, value)

SpecPools == InitThree /\ [][NextPools]_vars

\* The runtime as the test externalities build it: the block number set to 1
\* and no hook run yet, so that calls can precede the first on_initialize.
InitBuilt ==
  /\ now = 1
  /\ pc = "extrinsics"
  /\ current_era = 0
  /\ block_reward_accumulator = 0
  /\ force_era = "ForceNone"
  /\ era_reward_and_stake = [e \in {} |-> DefaultEraRewardAndStake]
  /\ pool_era_stake = [k \in {} |-> DefaultEraStakingPoints]
  /\ ledger = [s \in {} |-> DefaultAccountLedger]
  /\ locks = [s \in {} |-> 0]
  /\ free_balance = GenesisBalance @@ (PoolAccount :> 0)
  /\ total_issuance = GenesisIssuance
  /\ events = <<>>
  /\ result = "Ok"
  /\ hist = [start_block |-> 2, forced |-> 0, stakes |-> 0, unstakes |-> 0,
             last_boundary |-> 0, last_forced |-> FALSE, forced_at_boundary |-> 0]
  /\ registered_pool = {}
  /\ reserved_balance = [a \in DOMAIN GenesisBalance \cup {PoolAccount} |-> 0]
  /\ chain_ids = {}
  /\ fishermen = {}
  /\ projects = [j \in {} |-> DefaultProject]
  /\ providers = [p \in {} |-> DefaultProvider]
  /\ registered_providers = [p \in {} |-> DefaultProviderInfo]

SpecBuilt == InitBuilt /\ [][Next]_vars

\* Account 2 (800 free) staking 25 at a time on the registered pools and
\* unstaking part of a position or all of it.
PartialStaker == 2
StakeValuesPartial == {25}
UnstakeValuesPartial == {10, 25}
NextPartial ==
  \/ on_initialize
  \/ on_timestamp_set
  \/ force_new_era
  \/ \E pool_id \in Pools, value \in StakeValuesPartial :
       hist.stakes < MaxStakes /\ stake(PartialStaker, pool_id, value)
  \/ \E pool_id \in Pools, value \in UnstakeValuesPartial :
       hist.unstakes < MaxUnstakes /\ unstake(PartialStaker, pool_id, value)
  \/ withdraw_unbonded(PartialStaker)

SpecPartial == InitUnbond /\ [][NextPartial]_vars

\* Account 2 staking 100 on one pool and unstaking 10 at a time over five
\* eras, two of them forced, so that the unbonding queue fills up.
MaxForceQueue == 2
MaxUnstakesQueue == 6
StakeValuesQueue == {100}
UnstakeValuesQueue == {10}
NextQueue ==
  \/ on_initialize
  \/ on_timestamp_set
  \/ hist.forced < MaxForceQueue /\ force_era_put
  \/ \E value \in StakeValuesQueue :
       hist.stakes < 1 /\ stake(PartialStaker, "p1", value)
  \/ \E value \in UnstakeValuesQueue :
       hist.unstakes < MaxUnstakesQueue /\ unstake(PartialStaker, "p1", value)
  \/ withdraw_unbonded(PartialStaker)

SpecQueue == InitUnbond /\ [][NextQueue]_vars

\* Every call of both pallets over the first blocks: staker 6 on pool p2,
\* accounts 1 and 2 as consumers and operators of p1, account 1 as fisherman.
MaxBlockCalls == 4
CallOrigins == {Root, Signed(1), Signed(2)}
StakeValuesCalls == {9}
NextCalls ==
  \/ now < MaxBlockCalls /\ on_initialize
  \/ on_timestamp_set
  \/ \E origin \in CallOrigins : register(origin, "p2")
  \/ \E value \in StakeValuesCalls : hist.stakes < MaxStakes /\ stake(6, "p2", value)
  \/ \E value \in UnstakeValues : hist.unstakes < 1 /\ unstake(6, "p2", value)
  \/ withdraw_unbonded(6)
  \/ \E origin \in CallOrigins, era \in 0..current_era : claim(origin, "p2", era)
  \/ \E origin \in CallOrigins, chain_id \in ChainIdInputs : add_chain_id(origin, chain_id)
  \/ \E origin \in CallOrigins, chain_id \in ChainIdInputs : remove_chain_id(origin, chain_id)
  \/ \E origin \in CallOrigins : add_fisherman(origin, 1)
  \/ \E origin \in CallOrigins : remove_fisherman(origin, 1)
  \/ \E origin \in CallOrigins, chain_id \in ChainIdInputs :
       register_project(origin, "j1", chain_id, 3000)
  \/ \E origin \in CallOrigins : deposit_project(origin, "j1", 3000)
  \/ \E origin \in CallOrigins : submit_project_usage(origin, "j1", 2)
  \/ \E origin \in CallOrigins, chain_id \in ChainIdInputs :
       register_provider(origin, "p1", "Gateway", chain_id, 200)
  \/ \E origin \in CallOrigins : unregister_provider(origin, "p1")
  \/ \E origin \in CallOrigins : submit_provider_report(origin, "p1", 100, 99, 20)

SpecCalls == InitThree /\ [][NextCalls]_vars

\* The registry on the built runtime: root and two signed accounts manage the
\* chain ids and the fishermen, accounts 1 and 2 pay for one project and
\* operate one provider, and the fishermen report on both.
RegistryAccounts == {1, 2}
RegistryOrigins == {Root, Signed(1), Signed(2)}
ProjectIds == {"j1"}
ProviderIds == {"p1"}
DepositValues == {1500, 3000}
UsageValues == {1, 2}
ProviderDeposits == {200}
NextRegistry ==
  \/ \E origin \in RegistryOrigins, chain_id \in ChainIdInputs :
       add_chain_id(origin, chain_id)
  \/ \E origin \in RegistryOrigins, chain_id \in ChainIdInputs :
       remove_chain_id(origin, chain_id)
  \/ \E origin \in RegistryOrigins, account_id \in RegistryAccounts :
       add_fisherman(origin, account_id)
  \/ \E origin \in RegistryOrigins, account_id \in RegistryAccounts :
       remove_fisherman(origin, account_id)
  \/ \E origin \in RegistryOrigins, project_id \in ProjectIds,
        chain_id \in ChainIdInputs, deposit \in DepositValues :
       register_project(origin, project_id, chain_id, deposit)
  \/ \E origin \in RegistryOrigins, project_id \in ProjectIds,
        deposit \in DepositValues :
       deposit_project(origin, project_id, deposit)
  \/ \E origin \in RegistryOrigins, project_id \in ProjectIds, usage \in UsageValues :
       submit_project_usage(origin, project_id, usage)
  \/ \E origin \in RegistryOrigins, provider_id \in ProviderIds,
        chain_id \in ChainIdInputs, deposit \in ProviderDeposits :
       register_provider(origin, provider_id, "Gateway", chain_id, deposit)
  \/ \E origin \in RegistryOrigins, provider_id \in ProviderIds :
       unregister_provider(origin, provider_id)
  \/ \E origin \in RegistryOrigins, provider_id \in ProviderIds :
       submit_provider_report(origin, provider_id, 100, 99, 20)

SpecRegistry == InitBuilt /\ [][NextRegistry]_vars

\* The provider lifecycle on the built runtime: accounts 1 (9000 free) and 2
\* (800 free) register two provider ids with a deposit below the register
\* deposit, an affordable one and one above what account 2 owns; operators
\* unregister, fishermen report.
ProviderIdsPair == {"p1", "p2"}
ProviderDepositsWide == {5, 200, 1000}
NextProviders ==
  \/ \E origin \in RegistryOrigins, chain_id \in ChainIdInputs :
       add_chain_id(origin, chain_id)
  \/ \E origin \in RegistryOrigins, chain_id \in ChainIdInputs :
       remove_chain_id(origin, chain_id)
  \/ \E origin \in RegistryOrigins, account_id \in RegistryAccounts :
       add_fisherman(origin, account_id)
  \/ \E origin \in RegistryOrigins, provider_id \in ProviderIdsPair,
        chain_id \in ChainIdInputs, deposit \in ProviderDepositsWide :
       register_provider(origin, provider_id, "Gateway", chain_id, deposit)
  \/ \E origin \in RegistryOrigins, provider_id \in ProviderIdsPair :
       unregister_provider(origin, provider_id)
  \/ \E origin \in RegistryOrigins, provider_id \in ProviderIdsPair :
       submit_provider_report(origin, provider_id, 100, 99, 20)

SpecProviders == InitBuilt /\ [][NextProviders]_vars

\* ================================================================ claims
SignedOrigins == {o \in Origins : o.kind = "Signed"}

\* claimed_rewards of the direct entry of (pool, era), 0 when there is none
claimed_direct(pool_id, era) ==
  IF <<pool_id, era>> \in DOMAIN pool_era_stake
  THEN pool_era_stake[<<pool_id, era>>].claimed_rewards
  ELSE 0

IsOnInitializeStep == pc \in {"genesis", "extrinsics"} /\ pc' = "timestamp"
IsTimestampStep == pc = "timestamp" /\ pc' = "extrinsics"
\* the condition under which on_initialize(n) is to start a new era
BoundaryDue(n) == n % BlockPerEra = 1 \/ force_era = "ForceNew" \/ current_era = 0

\* C1 (as stated): whenever points[P, E].claimed_rewards > 0, claim(P, E) by
\* any signed caller fails with AlreadyClaimedInThisEra.
C1_AlwaysAlreadyClaimed ==
  \A pool_id \in Pools, era \in 0..current_era, origin \in SignedOrigins :
    claimed_direct(pool_id, era) > 0
      => claim_result(origin, pool_id, era) = "AlreadyClaimedInThisEra"

\* C1 (amended): a claim(P, E) by a signed caller on an entry with
\* claimed_rewards > 0 fails and changes no state; the error is
\* AlreadyClaimedInThisEra while E is within HistoryDepth of the current era
\* and EraOutOfBounds once E is older than that.
C1_ClaimedEntryRejected ==
  [][\A pool_id \in Pools, era \in 0..current_era, origin \in SignedOrigins :
       (claimed_direct(pool_id, era) > 0 /\ claim(origin, pool_id, era))
         => /\ result' = IF era >= saturating_sub(current_era, HistoryDepth)
                         THEN "AlreadyClaimedInThisEra"
                         ELSE "EraOutOfBounds"
            /\ events' = <<>>
            /\ UNCHANGED <<stakingVars, currencyVars>>]_vars

\* a claim has just been refused on an entry that was paid out before
C1_Witness ==
  /\ result = "AlreadyClaimedInThisEra"
  /\ \E pool_id \in Pools : claimed_direct(pool_id, current_era - 1) > 0

\* C2: total_issuance changes only in on_timestamp_set, by +RewardAmount;
\* every other step, a successful claim included, leaves it as it was.
C2_IssuanceConserved ==
  [][IF IsTimestampStep
     THEN total_issuance' = total_issuance + RewardAmount
     ELSE total_issuance' = total_issuance]_vars

RECURSIVE SumOver(_, _)
\* the sum of f[x] over the finite set S
SumOver(S, f) ==
  IF S = {} THEN 0
  ELSE LET x == CHOOSE y \in S : TRUE IN f[x] + SumOver(S \ {x}, f)

AllPools == Pools \cup PoolsThree
\* the eras claim() accepts in the current state
ClaimableEras ==
  {e \in 0..current_era : e < current_era /\ e >= saturating_sub(current_era, HistoryDepth)}
\* what the claims on era e have paid out so far
PaidOut(e) == SumOver(AllPools, [p \in AllPools |-> claimed_direct(p, e)])
\* the part of the rewards of era e that no claim has paid out yet
RemainingToPay(e) ==
  saturating_sub(era_reward_and_stake_or_default(era_reward_and_stake, e).rewards, PaidOut(e))
AtBoundary == pc = "timestamp" /\ events # <<>>

\* C3: at every era boundary the pool account's free balance covers the
\* rewards of all still-claimable eras that claims have not paid out yet.
C3_PoolCoversRemaining ==
  AtBoundary =>
    free_balance[PoolAccount] >=
      SumOver(ClaimableEras, [e \in ClaimableEras |-> RemainingToPay(e)])


\* C4: current_era never decreases, only on_initialize changes it, and every
\* era boundary on_initialize processes raises it by exactly 1.
C4_EraMonotonic ==
  [][/\ current_era' >= current_era
     /\ current_era' # current_era => IsOnInitializeStep
     /\ (IsOnInitializeStep /\ BoundaryDue(now'))
          => (current_era' = current_era + 1 /\ events' = <<NewDapiStakingEra(current_era')>>)
     /\ ~IsOnInitializeStep => current_era' = current_era]_vars

\* two boundaries have been processed and a stake made in between
C4_Witness == current_era >= 3 /\ hist.stakes > 0

\* C5: on_initialize(now) starts a new era iff now mod BlockPerEra = 1, or
\* ForceEra is ForceNew, or current_era is 0; when it does not, current_era,
\* the accumulator and the era snapshots are unchanged; and two consecutive
\* unforced boundaries after era 1 are BlockPerEra blocks apart.
C5_BoundaryIff ==
  [][IsOnInitializeStep =>
       /\ (current_era' = current_era + 1) <=> BoundaryDue(now')
       /\ ~BoundaryDue(now') =>
            UNCHANGED <<current_era, block_reward_accumulator, era_reward_and_stake>>
       /\ (BoundaryDue(now') /\ current_era >= 2 /\ force_era # "ForceNew"
             /\ ~hist.last_forced)
            => now' - hist.last_boundary = BlockPerEra]_vars

\* the first on_initialize came in the middle of an era and opened era 1,
\* and a later unforced boundary followed an unforced one
C5_Witness ==
  /\ hist.start_block % BlockPerEra # 1
  /\ current_era = 3
  /\ hist.forced = 0
  /\ AtBoundary

\* C6: a boundary closing era E with accumulator R zeroes the accumulator,
\* sets EraRewardsAndStakes[E].rewards to R keeping E's staked total, emits
\* the new-era event for E + 1 and leaves the pool account's balance alone.
C6_BoundaryEffects ==
  [][(IsOnInitializeStep /\ BoundaryDue(now')) =>
       LET E == current_era
           R == block_reward_accumulator
           before == era_reward_and_stake_or_default(era_reward_and_stake, E)
       IN /\ block_reward_accumulator' = 0
          /\ E \in DOMAIN era_reward_and_stake'
          /\ era_reward_and_stake'[E].rewards = R
          /\ era_reward_and_stake'[E].staked = before.staked
          /\ events' = <<NewDapiStakingEra(E + 1)>>
          /\ free_balance'[PoolAccount] = free_balance[PoolAccount]]_vars

\* a boundary has just closed an era that carries stake and rewards
C6_Witness ==
  /\ AtBoundary
  /\ current_era >= 2
  /\ era_reward_and_stake[current_era - 1].rewards > 0
  /\ era_reward_and_stake[current_era - 1].staked > 0
  /\ free_balance[PoolAccount] > 0

\* the total locked by the stakers' ledgers
TotalLocked == SumOver(Stakers, [s \in Stakers |-> ledger_of(s).locked])

\* C7: when era E closes, the entry created for E + 1 is exactly
\* {rewards: 0, staked: E.staked, locked: E.locked}.
C7_CarryForward ==
  [][(IsOnInitializeStep /\ BoundaryDue(now')) =>
       LET E == current_era
           before == era_reward_and_stake_or_default(era_reward_and_stake, E)
           created == era_reward_and_stake'[E + 1]
       IN /\ DOMAIN created = {"rewards", "staked", "locked"}
          /\ created.rewards = 0
          /\ created.staked = before.staked
          /\ created.locked = TotalLocked]_vars

\* C8: on_timestamp_set mints RewardAmount and the staking sink adds it to
\* block_reward_accumulator and to the pool account's free balance; nothing
\* else changes.
C8_BlockRewardPlumbing ==
  [][IsTimestampStep =>
       /\ total_issuance' = total_issuance + RewardAmount
       /\ block_reward_accumulator' = block_reward_accumulator + RewardAmount
       /\ free_balance' = [free_balance EXCEPT ![PoolAccount] = @ + RewardAmount]
       /\ UNCHANGED <<now, current_era, force_era, era_reward_and_stake,
                      pool_era_stake, ledger, locks>>]_vars

\* block rewards of two blocks have reached the accumulator and the pool
C8_Witness ==
  /\ pc = "extrinsics"
  /\ block_reward_accumulator = 2 * RewardAmount
  /\ free_balance[PoolAccount] >= 2 * RewardAmount

\* C9: with the hooks run on every block from block 1 and no era forcing,
\* every closed era E >= 1 holds rewards RewardAmount * BlockPerEra and the
\* open era holds rewards 0.
C9_FullEraRewards ==
  (hist.start_block = 1 /\ hist.forced = 0 /\ current_era >= 1) =>
    /\ \A E \in 1..(current_era - 1) :
         /\ E \in DOMAIN era_reward_and_stake
         /\ era_reward_and_stake[E].rewards = RewardAmount * BlockPerEra
    /\ current_era \in DOMAIN era_reward_and_stake
    /\ era_reward_and_stake[current_era].rewards = 0

\* two full eras have been closed without forcing
C9_Witness == hist.start_block = 1 /\ hist.forced = 0 /\ current_era = 3

\* C10: with ForceEra = ForceNew the next on_initialize raises current_era by
\* exactly 1 whatever the block number, emits the new-era event and clears
\* the forcing; the block after a forced boundary, when not itself a regular
\* boundary and with no new forcing, does not advance the era.
C10_Forcing ==
  [][IsOnInitializeStep =>
       /\ force_era = "ForceNew" =>
            /\ current_era' = current_era + 1
            /\ events' = <<NewDapiStakingEra(current_era + 1)>>
            /\ force_era' = "ForceNone"
       /\ (hist.last_forced /\ hist.last_boundary = now /\ now' % BlockPerEra # 1
             /\ hist.forced = hist.forced_at_boundary)
            => current_era' = current_era]_vars

\* a forced boundary was processed on a block that is no regular boundary,
\* and the next block has been initialized
C10_Witness ==
  /\ hist.last_forced
  /\ hist.last_boundary % BlockPerEra # 1
  /\ now = hist.last_boundary + 1
  /\ now % BlockPerEra # 1
  /\ pc = "timestamp"
  /\ force_era = "ForceNone"
  /\ current_era >= 2

\* what staker has staked on pool_id in the current era, read through the
\* fallback rule
StakedOn(staker, pool_id) ==
  LET info == staking_info(pool_id, current_era)
  IN IF staker \in DOMAIN info.stakers THEN info.stakers[staker] ELSE 0

\* C11: for every staker S, ledger(S).locked equals the sum over the pools P
\* of S's stake in points[P, current_era] (read through the fallback rule)
\* plus the sum of S's unbonding chunks.
C11_LedgerMatchesStakes ==
  \A staker \in Stakers :
    ledger_of(staker).locked =
      SumOver(AllPools, [p \in AllPools |-> StakedOn(staker, p)])
        + UnbondingSum(ledger_of(staker).unbonding_info)

\* a staker holds stake on a pool that is read through the fallback rule
\* while part of the locked amount is unbonding
C11_Witness ==
  /\ current_era >= 2
  /\ \E p \in Pools : /\ StakedOn(6, p) > 0
                      /\ <<p, current_era>> \notin DOMAIN pool_era_stake
  /\ UnbondingSum(ledger_of(6).unbonding_info) > 0
  /\ ledger_of(6).locked > UnbondingSum(ledger_of(6).unbonding_info)

\* the number of stakers of the points read for (pool, era)
NumberOfStakers(info) == Cardinality(DOMAIN info.stakers)

\* C12: every direct entry points[P, E] has total equal to the sum of its
\* stakers' values and at most MaxNumberOfStakers stakers, and a stake by a
\* staker not yet in a map that already holds MaxNumberOfStakers stakers fails
\* with MaxStakersExceeded.
C12_StakePoints ==
  [][/\ \A k \in DOMAIN pool_era_stake' :
          /\ pool_era_stake'[k].total =
               SumOver(DOMAIN pool_era_stake'[k].stakers, pool_era_stake'[k].stakers)
          /\ NumberOfStakers(pool_era_stake'[k]) <= MaxNumberOfStakers
     /\ \A staker \in CrowdStakers, pool_id \in AllPools, value \in StakeValues :
          (/\ staker \notin DOMAIN staking_info(pool_id, current_era).stakers
           /\ NumberOfStakers(staking_info(pool_id, current_era)) >= MaxNumberOfStakers
           /\ stake(staker, pool_id, value))
            => result' = "MaxStakersExceeded"]_vars

\* the eras for which some pool has a direct entry
ErasWithEntries == {k[2] : k \in DOMAIN pool_era_stake}

\* C13: for every era E that has direct entries, EraRewardsAndStakes[E].staked
\* equals the sum over the pools P of points[P, E].total, read through the
\* fallback rule for the pools without a direct entry for E; stakes made
\* before the first era boundary are included.
C13_EraTotal ==
  \A E \in ErasWithEntries :
    era_reward_and_stake_or_default(era_reward_and_stake, E).staked =
      SumOver(AllPools, [p \in AllPools |-> staking_info(p, E).total])

\* C14: the currency lock under the staking lock id mirrors the ledger: a
\* staker has a lock iff the ledger has an entry, the lock equals
\* ledger.locked, and the entry (with its lock) is absent iff locked is 0 and
\* the unbonding queue is empty.
C14_LockMirrorsLedger ==
  \A staker \in Stakers \cup CrowdStakers :
    /\ staker \in DOMAIN locks <=> staker \in DOMAIN ledger
    /\ staker \in DOMAIN ledger =>
         /\ locks[staker] = ledger[staker].locked
         /\ ~(ledger[staker].locked = 0 /\ ledger[staker].unbonding_info = <<>>)

\* a withdrawal has just emptied a ledger that held a lock, and update_ledger
\* removed both
C14_Witness ==
  /\ result = "Ok"
  /\ events # <<>>
  /\ events[1].name = "Withdrawn"
  /\ 6 \notin DOMAIN ledger
  /\ 6 \notin DOMAIN locks

\* Perbill::from_percent(OperatorRewardPercentage) * provider_reward
OperatorCut(provider_reward) ==
  perbill_mul(OperatorRewardPercentage * (PERBILL_MAX \div 100), provider_reward)

\* C15: a successful claim(P, E) pays every staker of the (P, E) snapshot:
\* the staker's free balance grows by r = (s / points.total) *
\* (provider_reward - operator_cut), a Reward(staker, P, E, r) event is
\* emitted for each, and the pool account's free balance falls by
\* provider_reward.
C15_ClaimPaysStakers ==
  [][\A pool_id \in AllPools, era \in 0..current_era, origin \in SignedOrigins :
       (claim(origin, pool_id, era) /\ result' = "Ok") =>
         LET info == staking_info(pool_id, era)
             provider_reward == dapi_pool_reward(info, era_reward_and_stake[era])
             stakers_part == provider_reward - OperatorCut(provider_reward)
         IN /\ \A staker \in DOMAIN info.stakers :
                 LET r == perbill_mul(from_rational(info.stakers[staker], info.total),
                                      stakers_part)
                 IN /\ free_balance'[staker] = free_balance[staker] + r
                    /\ \E i \in 1..Len(events') :
                         events'[i] = Reward(staker, pool_id, era, r)
            /\ free_balance'[PoolAccount] = free_balance[PoolAccount] - provider_reward]_vars

\* the accounts of the runtime other than the pallet's own
Accounts == DOMAIN GenesisBalance

RECURSIVE EventAmounts(_)
\* the sum of the amounts carried by a sequence of Reward events
EventAmounts(evs) == IF evs = <<>> THEN 0 ELSE Head(evs).amount + EventAmounts(Tail(evs))

\* C16: on a successful claim(P, E) the pool's operator receives
\* operator_cut = OperatorRewardPercentage * provider_reward before the
\* stakers' split, with a Reward(operator, P, E, operator_cut) event, and the
\* total paid to operator and stakers does not exceed provider_reward.
C16_OperatorCut ==
  [][\A pool_id \in AllPools, era \in 0..current_era, origin \in SignedOrigins :
       (claim(origin, pool_id, era) /\ result' = "Ok") =>
         LET info == staking_info(pool_id, era)
             provider_reward == dapi_pool_reward(info, era_reward_and_stake[era])
             operator_cut == OperatorCut(provider_reward)
         IN /\ \E operator \in Accounts :
                 /\ events' # <<>>
                 /\ events'[1] = Reward(operator, pool_id, era, operator_cut)
                 /\ free_balance'[operator] >= free_balance[operator] + operator_cut
            /\ EventAmounts(events') <= provider_reward]_vars

\* the eras claim() accepts: era < current_era and
\* era >= current_era - HistoryDepth, saturating at 0
InClaimWindow(era) ==
  era < current_era /\ era >= saturating_sub(current_era, HistoryDepth)

\* C17: a claim(P, era) by a signed caller succeeds only for an era inside
\* the window; for any other era, the current one included, it fails with
\* EraOutOfBounds and changes no state.
C17_ClaimWindow ==
  [][\A pool_id \in Pools, era \in 0..current_era, origin \in SignedOrigins :
       claim(origin, pool_id, era) =>
         /\ result' = "Ok" => InClaimWindow(era)
         /\ ~InClaimWindow(era) =>
              /\ result' = "EraOutOfBounds"
              /\ events' = <<>>
              /\ UNCHANGED <<stakingVars, currencyVars>>]_vars

\* a claim has just been refused for being out of the window while the pool
\* it names holds stake in the current era and in an era too old to claim
C17_Witness ==
  /\ result = "EraOutOfBounds"
  /\ current_era >= 3
  /\ \E pool_id \in Pools :
       /\ staking_info(pool_id, current_era).total > 0
       /\ staking_info(pool_id, 1).total > 0

\* C18: with the hooks run in every block before its calls, era 0 carries no
\* payouts: EraRewardsAndStakes[0].rewards is 0 whenever the entry exists and
\* no claim for era 0 changes the pool account's free balance.
C18_EraZeroNoPayout ==
  [][/\ 0 \in DOMAIN era_reward_and_stake' => era_reward_and_stake'[0].rewards = 0
     /\ \A pool_id \in Pools, origin \in Origins :
          claim(origin, pool_id, 0) =>
            /\ free_balance'[PoolAccount] = free_balance[PoolAccount]
            /\ total_issuance' = total_issuance]_vars

\* era 0 has just been claimed inside the window (in era 1) on a pool that
\* holds stake, while the pool account holds block rewards
C18_Witness ==
  /\ current_era = 1
  /\ result = "NotStaked"
  /\ free_balance[PoolAccount] > 0
  /\ \E pool_id \in Pools : staking_info(pool_id, 1).total > 0

\* C19: stake clamps instead of rejecting: the staked amount is
\* min(requested, (free - MinimumRemainingAmount) - ledger.locked) with
\* saturating subtractions, the stake event carries that clamped amount, and
\* the call fails with StakingWithNoValue exactly when the clamped amount is 0.
C19_StakeClamps ==
  [][\A staker \in Stakers, pool_id \in Pools, requested \in StakeValues :
       stake(staker, pool_id, requested) =>
         LET locked == ledger_of(staker).locked
             room == saturating_sub(
                       saturating_sub(free_balance[staker], MinimumRemainingAmount),
                       locked)
             amount == IF requested < room THEN requested ELSE room
         IN /\ result' = "StakingWithNoValue" <=> amount = 0
            /\ amount = 0 => events' = <<>> /\ UNCHANGED <<stakingVars, currencyVars>>
            /\ amount > 0 =>
                 /\ result' = "Ok"
                 /\ events' = <<BondAndStake(staker, pool_id, amount)>>
                 /\ ledger'[staker].locked = locked + amount]_vars

\* a request above what the staker has free has just been staked clamped
C19_Witness ==
  /\ result = "Ok"
  /\ events # <<>>
  /\ events[1].name = "BondAndStake"
  /\ events[1].amount > 0
  /\ \A requested \in StakeValues : events[1].amount < requested

\* C20: immediately after every successful stake by staker S, ledger(S).locked
\* (S's staked and unbonding amounts) does not exceed
\* free_balance(S) - MinimumRemainingAmount, whatever stakes, unstakes and
\* withdrawals preceded it.
C20_DoubleSpendGuard ==
  (result = "Ok" /\ events # <<>> /\ events[1].name = "BondAndStake") =>
    ledger_of(events[1].who).locked
      <= free_balance[events[1].who] - MinimumRemainingAmount

\* a stake has just succeeded, clamped by the amount the staker still has
\* unbonding from an earlier unstake
C20_Witness ==
  /\ result = "Ok"
  /\ events # <<>>
  /\ events[1].name = "BondAndStake"
  /\ \A requested \in StakeValuesUnbond : events[1].amount < requested
  /\ UnbondingSum(ledger_of(6).unbonding_info) > 0
  /\ ledger_of(6).locked = free_balance[6] - MinimumRemainingAmount


\* C21: a stake or an unstake on a pool that is not registered is refused with
\* NotOperatedProvider and changes neither the staking storage nor balances.
C21_StakeGatedByProviderState ==
  [][\A pool_id \in Pools :
       pool_id \notin registered_pool =>
         /\ \A value \in StakeValuesUnbond :
              stake(6, pool_id, value) =>
                /\ result' = "NotOperatedProvider"
                /\ UNCHANGED <<stakingVars, currencyVars>>
         /\ \A value \in UnstakeValues :
              unstake(6, pool_id, value) =>
                /\ result' = "NotOperatedProvider"
                /\ UNCHANGED <<stakingVars, currencyVars>>]_vars

\* C22: a call of either pallet that returns an error leaves the storage of
\* both pallets, the balances, locks and reserves as they were and deposits
\* no event.
C22_FailedCallChangesNothing ==
  [][result' # "Ok" =>
       /\ UNCHANGED <<stakingVars, currencyVars, registryVars>>
       /\ events' = <<>>]_vars
\* a call was refused for its caller while a provider and a project exist
C22_Witness ==
  /\ result = "NotOwner"
  /\ "p1" \in DOMAIN providers
  /\ "j1" \in DOMAIN projects

\* C23: a successful unstake(S, P, value) unbonds the whole position c when
\* c - value (saturating) is below MinimumStakingAmount and value otherwise;
\* a position that reaches 0 leaves the stakers of P, whose count drops by 1.
C23_UnstakeDrains ==
  [][\A pool_id \in Pools, value \in UnstakeValuesPartial :
       (unstake(PartialStaker, pool_id, value) /\ result' = "Ok") =>
         LET before == staking_info(pool_id, current_era)
             c == before.stakers[PartialStaker]
             u == IF saturating_sub(c, value) < MinimumStakingAmount THEN c ELSE value
             after == pool_era_stake'[<<pool_id, current_era>>]
         IN /\ events' = <<Unstake(PartialStaker, pool_id, u)>>
            /\ c - u = 0 =>
                 /\ PartialStaker \notin DOMAIN after.stakers
                 /\ NumberOfStakers(after) = NumberOfStakers(before) - 1
            /\ c - u > 0 =>
                 /\ after.stakers[PartialStaker] = c - u
                 /\ NumberOfStakers(after) = NumberOfStakers(before)]_vars
\* a part of a position was unstaked and then the rest was drained by a
\* request that would have left dust
C23_Witness ==
  /\ result = "Ok"
  /\ \E pool_id \in Pools : events = <<Unstake(PartialStaker, pool_id, 15)>>
  /\ UnbondingSum(ledger_of(PartialStaker).unbonding_info) = 25

QueueInOrder(q) ==
  /\ \A i \in 1..(Len(q) - 1) : q[i].unlock_era < q[i + 1].unlock_era
  /\ Len(q) <= MaxUnlockingChunks

\* C25: every staker's unbonding queue is strictly ascending by unlock_era
\* and holds at most MaxUnlockingChunks chunks; an unstake of a staked
\* account whose unlock era already has a chunk merges into it, also when the
\* queue is full, and one that needs a new chunk in a full queue fails with
\* TooManyUnlockingChunks and changes nothing.
C25_UnbondingQueue ==
  /\ [](\A s \in DOMAIN ledger : QueueInOrder(ledger[s].unbonding_info))
  /\ [][\A value \in UnstakeValuesQueue :
         (/\ unstake(PartialStaker, "p1", value)
          /\ "p1" \in registered_pool
          /\ PartialStaker \in DOMAIN staking_info("p1", current_era).stakers) =>
           LET q0 == ledger_of(PartialStaker).unbonding_info
               unlock_era == current_era + UnbondingPeriod
               merges == \E i \in 1..Len(q0) : q0[i].unlock_era = unlock_era
           IN /\ merges =>
                   /\ result' = "Ok"
                   /\ Len(ledger'[PartialStaker].unbonding_info) = Len(q0)
              /\ (~merges /\ Len(q0) < MaxUnlockingChunks) =>
                   /\ result' = "Ok"
                   /\ Len(ledger'[PartialStaker].unbonding_info) = Len(q0) + 1
              /\ (~merges /\ Len(q0) >= MaxUnlockingChunks) =>
                   /\ result' = "TooManyUnlockingChunks"
                   /\ UNCHANGED <<stakingVars, currencyVars>>]_vars
\* a second unstake of one era has merged into the last chunk of a full queue
C25_Witness ==
  LET q == ledger_of(PartialStaker).unbonding_info
  IN /\ result = "Ok"
     /\ events = <<Unstake(PartialStaker, "p1", 10)>>
     /\ Len(q) = MaxUnlockingChunks
     /\ q[Len(q)].amount = 20
     /\ q[Len(q)].unlock_era = current_era + UnbondingPeriod

\* C26: withdraw_unbonded fails with NothingToWithdraw and changes nothing
\* while no chunk of the queue has reached its unlock era (for a chunk made
\* by an unstake in era E that is every era before E + UnbondingPeriod);
\* otherwise it releases exactly the matured amount W: Withdrawn(S, W),
\* locked lowered by W, free balance untouched, and when everything that was
\* bonded has been unstaked and has matured the lock is removed and the
\* ledger entry deleted.
C26_UnbondingRoundTrip ==
  [][withdraw_unbonded(PartialStaker) =>
       LET l0 == ledger_of(PartialStaker)
           W == UnbondingSum(SelectSeq(l0.unbonding_info,
                                       LAMBDA c : c.unlock_era <= current_era))
           pending == SelectSeq(l0.unbonding_info,
                                LAMBDA c : c.unlock_era > current_era)
       IN /\ W = 0 =>
               /\ result' = "NothingToWithdraw"
               /\ events' = <<>>
               /\ UNCHANGED <<stakingVars, currencyVars>>
          /\ W > 0 =>
               /\ result' = "Ok"
               /\ events' = <<Withdrawn(PartialStaker, W)>>
               /\ free_balance' = free_balance
               /\ IF l0.locked = W
                  THEN /\ PartialStaker \notin DOMAIN ledger'
                       /\ PartialStaker \notin DOMAIN locks'
                  ELSE /\ ledger'[PartialStaker].locked = l0.locked - W
                       /\ ledger'[PartialStaker].unbonding_info = pending
                       /\ locks'[PartialStaker] = l0.locked - W]_vars
\* the 25 that were bonded and unstaked have been released: no lock, no
\* ledger, and the free balance of genesis
C26_Witness ==
  /\ result = "Ok"
  /\ events = <<Withdrawn(PartialStaker, 25)>>
  /\ PartialStaker \notin DOMAIN ledger
  /\ PartialStaker \notin DOMAIN locks
  /\ free_balance[PartialStaker] = GenesisBalance[PartialStaker]

\* C27: add_chain_id, remove_chain_id, add_fisherman and remove_fisherman
\* called with an origin that is not root fail and leave ChainIds and
\* Fishermen as they were.
C27_RootGated ==
  [][\A origin \in RegistryOrigins \ {Root} :
       (\/ \E chain_id \in ChainIdInputs : add_chain_id(origin, chain_id)
        \/ \E chain_id \in ChainIdInputs : remove_chain_id(origin, chain_id)
        \/ \E account_id \in RegistryAccounts : add_fisherman(origin, account_id)
        \/ \E account_id \in RegistryAccounts : remove_fisherman(origin, account_id)) =>
         /\ result' # "Ok"
         /\ UNCHANGED <<chain_ids, fishermen>>]_vars

\* C28: ChainIds and Fishermen behave as sets. Adding an element that is in
\* the set fails with AlreadyExist and removing one that is not fails with
\* NotExist, the set unchanged; a successful add inserts just that element
\* and a successful remove takes just that element out, so that an add
\* followed by a remove of the same element restores the set. (Chain ids are
\* the ids that fit ChainIdMaxLength, the element type of ChainIds.)
C28_SetSemantics ==
  [][\A origin \in RegistryOrigins :
       /\ \A chain_id \in {c \in ChainIdInputs : Len(c) <= ChainIdMaxLength} :
            /\ add_chain_id(origin, chain_id) =>
                 IF chain_id \in chain_ids
                 THEN result' = "AlreadyExist" /\ chain_ids' = chain_ids
                 ELSE /\ result' = "Ok"
                      /\ chain_ids' = chain_ids \cup {chain_id}
                      /\ chain_ids' \ {chain_id} = chain_ids
            /\ remove_chain_id(origin, chain_id) =>
                 IF chain_id \notin chain_ids
                 THEN result' = "NotExist" /\ chain_ids' = chain_ids
                 ELSE result' = "Ok" /\ chain_ids' = chain_ids \ {chain_id}
       /\ \A account_id \in RegistryAccounts :
            /\ add_fisherman(origin, account_id) =>
                 IF account_id \in fishermen
                 THEN result' = "AlreadyExist" /\ fishermen' = fishermen
                 ELSE /\ result' = "Ok"
                      /\ fishermen' = fishermen \cup {account_id}
                      /\ fishermen' \ {account_id} = fishermen
            /\ remove_fisherman(origin, account_id) =>
                 IF account_id \notin fishermen
                 THEN result' = "NotExist" /\ fishermen' = fishermen
                 ELSE result' = "Ok" /\ fishermen' = fishermen \ {account_id}]_vars
\* an account was refused as a fisherman because it is one already
C28_Witness ==
  /\ result = "AlreadyExist"
  /\ fishermen = {1, 2}
  /\ chain_ids = {}
  /\ DOMAIN projects = {}
  /\ DOMAIN providers = {}

\* C29: submit_project_usage and submit_provider_report signed by an account
\* that is not in Fishermen fail with PermissionDenied and change no project
\* and no provider; a successful remove_fisherman takes the account out of
\* Fishermen, so it is refused from then on until it is added again.
C29_ReportsFishermanGated ==
  [][\A origin \in RegistryOrigins \ {Root} :
       /\ origin.who \notin fishermen =>
            /\ \A project_id \in ProjectIds, usage \in UsageValues :
                 submit_project_usage(origin, project_id, usage) =>
                   /\ result' = "PermissionDenied"
                   /\ events' = <<>>
                   /\ UNCHANGED <<projects, providers, registered_pool, registered_providers>>
            /\ \A provider_id \in ProviderIds :
                 submit_provider_report(origin, provider_id, 100, 99, 20) =>
                   /\ result' = "PermissionDenied"
                   /\ events' = <<>>
                   /\ UNCHANGED <<projects, providers, registered_pool, registered_providers>>
       /\ \A caller \in RegistryOrigins :
            (remove_fisherman(caller, origin.who) /\ result' = "Ok") =>
              origin.who \notin fishermen']_vars
\* a report was refused after the fishermen that had reported usage were
\* removed
C29_Witness ==
  /\ result = "PermissionDenied"
  /\ fishermen = {}
  /\ \E project_id \in DOMAIN projects : projects[project_id].usage > 0
  /\ \E provider_id \in DOMAIN providers : providers[provider_id].state = "Registered"

\* C30: the usage of a project never exceeds its quota and never decreases;
\* a successful report of u sets it to min(previous usage + u, quota) and
\* deposits ProjectReachedQuota when the new usage equals the quota and
\* ProjectUsageReported otherwise, so that a report at quota leaves the usage
\* unchanged; deposit_project leaves the usage alone and never lowers the
\* quota.
C30_UsageCapped ==
  /\ [](\A project_id \in DOMAIN projects :
          /\ 0 <= projects[project_id].usage
          /\ projects[project_id].usage <= projects[project_id].quota)
  /\ [][/\ \A project_id \in DOMAIN projects :
            /\ project_id \in DOMAIN projects'
            /\ projects'[project_id].usage >= projects[project_id].usage
        /\ \A origin \in RegistryOrigins, project_id \in ProjectIds, u \in UsageValues :
             (submit_project_usage(origin, project_id, u) /\ result' = "Ok") =>
               LET before == projects[project_id]
                   after == projects'[project_id]
                   sum == before.usage + u
               IN /\ after.usage = IF sum < before.quota THEN sum ELSE before.quota
                  /\ after.quota = before.quota
                  /\ events' = IF after.usage = after.quota
                               THEN <<ProjectReachedQuota(project_id)>>
                               ELSE <<ProjectUsageReported(project_id, u)>>
                  /\ before.usage = before.quota => after.usage = before.usage
        /\ \A origin \in RegistryOrigins, project_id \in ProjectIds,
              deposit \in DepositValues :
             (deposit_project(origin, project_id, deposit) /\ result' = "Ok") =>
               /\ projects'[project_id].usage = projects[project_id].usage
               /\ projects'[project_id].quota >= projects[project_id].quota]_vars
\* two reports (1, then 2) have brought a project of quota 4 to usage 3
C30_Witness ==
  /\ result = "Ok"
  /\ events = <<ProjectUsageReported("j1", 2)>>
  /\ projects["j1"].usage = 3
  /\ projects["j1"].quota = 4

\* C31: unregister_provider succeeds only for the operator of a Registered
\* provider, which it leaves Unregistered; a signed caller gets NotExist for
\* an unknown id, NotOwner when it is not the operator, and
\* NotOperatedProvider when the provider is already Unregistered (in the era
\* of the first unregister or any later one); a refused call changes nothing.
C31_UnregisterOnce ==
  [][\A origin \in CallOrigins :
       unregister_provider(origin, "p1") =>
         /\ (origin.kind = "Signed" /\ "p1" \notin DOMAIN providers)
              => result' = "NotExist"
         /\ (/\ origin.kind = "Signed"
             /\ "p1" \in DOMAIN providers
             /\ providers["p1"].operator # origin.who)
              => result' = "NotOwner"
         /\ (/\ origin.kind = "Signed"
             /\ "p1" \in DOMAIN providers
             /\ providers["p1"].operator = origin.who
             /\ providers["p1"].state = "Unregistered")
              => result' = "NotOperatedProvider"
         /\ result' = "Ok"
              => /\ "p1" \in DOMAIN providers
                 /\ providers["p1"].state = "Registered"
                 /\ providers["p1"].operator = origin.who
                 /\ providers'["p1"].state = "Unregistered"
         /\ result' # "Ok"
              => /\ UNCHANGED <<stakingVars, currencyVars, registryVars>>
                 /\ events' = <<>>]_vars
\* the operator's unregister of an Unregistered provider was refused in era 2,
\* with no fisherman around and the staking pool p2 still registered
C31_Witness ==
  /\ result = "NotOperatedProvider"
  /\ events = <<>>
  /\ "p1" \in DOMAIN providers
  /\ providers["p1"].state = "Unregistered"
  /\ fishermen = {}
  /\ "p2" \in registered_pool
  /\ current_era = 2

\* a successful unregister of provider p1, by its operator or through a
\* fisherman's report
UnregisterSucceeds ==
  /\ \E origin \in CallOrigins :
       \/ unregister_provider(origin, "p1")
       \/ submit_provider_report(origin, "p1", 100, 99, 20)
  /\ result' = "Ok"

\* what C32 says of the record and of the stakes: the state becomes
\* Unregistered(E, E + UnbondingPeriod), the operator stays, and the era's
\* staked amount, the provider's total and its number of stakers stay
UnregisterKeepsStakes ==
  /\ registered_providers'["p1"].state =
       Unregistered(current_era, current_era + UnbondingPeriod)
  /\ registered_providers'["p1"].operator = registered_providers["p1"].operator
  /\ providers'["p1"].operator = providers["p1"].operator
  /\ era_reward_and_stake' = era_reward_and_stake
  /\ staking_info("p1", current_era)'.total = staking_info("p1", current_era).total
  /\ NumberOfStakers(staking_info("p1", current_era)') =
       NumberOfStakers(staking_info("p1", current_era))

RegisterProviderRules(origin, provider_id, chain_id) ==
  /\ (origin.kind = "Signed" /\ provider_id \in DOMAIN providers)
       => result' = "AlreadyExist"
  /\ (/\ origin.kind = "Signed"
      /\ provider_id \notin DOMAIN providers
      /\ chain_id \notin chain_ids)
       => result' = "BadChainId"
  /\ result' # "Ok"
       => UNCHANGED <<stakingVars, currencyVars, registryVars>>
  /\ result' = "Ok"
       => /\ reserved_balance'[origin.who] =
               reserved_balance[origin.who] + RegisterDeposit
          /\ \A a \in DOMAIN reserved_balance \ {origin.who} :
               reserved_balance'[a] = reserved_balance[a]
          /\ providers'[provider_id].state = "Registered"
          /\ providers'[provider_id].operator = origin.who
          /\ registered_providers'[provider_id] =
               [operator |-> origin.who, state |-> Registered]

\* the self-stake of amount a that a successful register_provider makes
SelfStakeMade(origin, provider_id, a) ==
  /\ events'[1] = Stake(origin.who, provider_id, a)
  /\ ledger_of(origin.who)'.locked = ledger_of(origin.who).locked + a
  /\ staking_info(provider_id, current_era)'.stakers = (origin.who :> a)
  /\ staking_info(provider_id, current_era)'.total = a

\* C33 as stated: registration of an id already present fails whoever calls,
\* a chain id outside ChainIds fails with BadChainId, and a success reserves
\* exactly RegisterDeposit, records the provider as Registered with the
\* caller as operator and self-stakes deposit - RegisterDeposit.
C33_SelfStakeIsDepositLessReserve ==
  [][\A origin \in RegistryOrigins, provider_id \in ProviderIdsPair,
        chain_id \in ChainIdInputs, deposit \in ProviderDepositsWide :
       register_provider(origin, provider_id, "Gateway", chain_id, deposit) =>
         /\ RegisterProviderRules(origin, provider_id, chain_id)
         /\ result' = "Ok" =>
              SelfStakeMade(origin, provider_id, deposit - RegisterDeposit)]_vars

\* C33, amended: the same, except that the self-stake is deposit -
\* RegisterDeposit clamped to what the operator can still lock once the
\* deposit is reserved (free - RegisterDeposit - MinimumRemainingAmount -
\* already locked), and is never 0.
C33_RegisterProvider ==
  [][\A origin \in RegistryOrigins, provider_id \in ProviderIdsPair,
        chain_id \in ChainIdInputs, deposit \in ProviderDepositsWide :
       register_provider(origin, provider_id, "Gateway", chain_id, deposit) =>
         /\ RegisterProviderRules(origin, provider_id, chain_id)
         /\ result' = "Ok" =>
              LET lockable ==
                    free_balance[origin.who] - RegisterDeposit
                      - MinimumRemainingAmount - ledger_of(origin.who).locked
                  a == Min(deposit - RegisterDeposit, lockable)
              IN /\ a > 0
                 /\ SelfStakeMade(origin, provider_id, a)]_vars
\* account 2 (800 free) registered a provider with a deposit of 1000: 10 are
\* reserved and the self-stake is the 789 it could still lock
C33_Witness ==
  /\ result = "Ok"
  /\ Len(events) = 2
  /\ events[1].name = "Stake"
  /\ events[1].who = 2
  /\ events[1].amount = 789
  /\ events[2].name = "ProviderRegistered"
  /\ reserved_balance[2] = RegisterDeposit
  /\ free_balance[2] = 790

\* C34: a successful register_project reserves the deposit, so the consumer's
\* reserved balance grows by the deposit and free + reserved stays, and
\* inserts the project with quota = deposit / QUOTA_SCALE and usage 0; an id
\* already present fails with AlreadyExist and a chain id outside ChainIds
\* with BadChainId.
C34_RegisterProjectReserves ==
  [][\A origin \in RegistryOrigins, project_id \in ProjectIds,
        chain_id \in ChainIdInputs, deposit \in DepositValues :
       register_project(origin, project_id, chain_id, deposit) =>
         /\ (origin.kind = "Signed" /\ project_id \in DOMAIN projects)
              => result' = "AlreadyExist"
         /\ (/\ origin.kind = "Signed"
             /\ project_id \notin DOMAIN projects
             /\ chain_id \notin chain_ids)
              => result' = "BadChainId"
         /\ result' = "Ok"
              => /\ reserved_balance'[origin.who] =
                      reserved_balance[origin.who] + deposit
                 /\ free_balance'[origin.who] + reserved_balance'[origin.who] =
                      free_balance[origin.who] + reserved_balance[origin.who]
                 /\ projects'[project_id].consumer = origin.who
                 /\ projects'[project_id].quota = deposit \div QUOTA_SCALE
                 /\ projects'[project_id].usage = 0]_vars

\* the eras at which pool_id has a direct entry
DirectEras(pool_id) == {k[2] : k \in {x \in DOMAIN pool_era_stake : x[1] = pool_id}}

\* C35: a read of the stake points of (P, E) returns the direct entry when
\* there is one; otherwise the total and stakers of the most recent direct
\* entry at an era <= E with claimed_rewards 0, or empty points when P has no
\* such entry; and every successful stake writes the direct entry of
\* (P, current_era), which the reads of that era return from then on.
C35_StakePointsFallback ==
  /\ [](\A P \in Pools, E \in 0..(current_era + 1) :
          LET prior == {e \in DirectEras(P) : e <= E}
              read == staking_info(P, E)
          IN IF E \in DirectEras(P)
             THEN read = pool_era_stake[<<P, E>>]
             ELSE IF prior = {}
             THEN /\ read.total = 0
                  /\ read.stakers = EmptyStakers
                  /\ read.claimed_rewards = 0
             ELSE LET last == CHOOSE e \in prior : \A d \in prior : d <= e
                  IN /\ read.total = pool_era_stake[<<P, last>>].total
                     /\ read.stakers = pool_era_stake[<<P, last>>].stakers
                     /\ read.claimed_rewards = 0)
  /\ [][\A staker \in Stakers, P \in Pools, value \in StakeValues :
          (stake(staker, P, value) /\ result' = "Ok") =>
            /\ current_era \in DirectEras(P)'
            /\ staking_info(P, current_era)' = pool_era_stake'[<<P, current_era>>]]_vars
\* pool p1 has a paid-out entry at era 1 and none at era 2, so a read of era 2
\* falls back to the stakes of era 1 with nothing claimed
C35_Witness ==
  /\ current_era = 2
  /\ 1 \in DirectEras("p1")
  /\ 2 \notin DirectEras("p1")
  /\ pool_era_stake[<<"p1", 1>>].claimed_rewards > 0
  /\ staking_info("p1", 2).total = pool_era_stake[<<"p1", 1>>].total
  /\ staking_info("p1", 2).total > 0
  /\ staking_info("p1", 2).claimed_rewards = 0

\* what a successful stake of amount a by staker on pool P does to the
\* ledger and to the points of (P, current_era), and what it leaves alone
StakeMovesPoints(staker, P, a) ==
  LET before == staking_info(P, current_era)
      after == staking_info(P, current_era)'
      had == IF staker \in DOMAIN before.stakers THEN before.stakers[staker] ELSE 0
  IN /\ ledger_of(staker)'.locked = ledger_of(staker).locked + a
     /\ after.total = before.total + a
     /\ staker \in DOMAIN after.stakers
     /\ after.stakers[staker] = had + a
     /\ NumberOfStakers(after) =
          NumberOfStakers(before) + (IF had = 0 THEN 1 ELSE 0)
     /\ \A s \in Stakers \ {staker} :
          /\ ledger_of(s)' = ledger_of(s)
          /\ (s \in DOMAIN after.stakers) = (s \in DOMAIN before.stakers)
          /\ s \in DOMAIN before.stakers => after.stakers[s] = before.stakers[s]
     /\ \A Q \in Pools \ {P}, E \in 0..current_era :
          staking_info(Q, E)' = staking_info(Q, E)

\* C36: a successful stake of clamped amount a by S on P in era E raises
\* ledger(S).locked, points[P, E].total, S's entry in points[P, E].stakers,
\* EraRewardAndStake[E].staked and EraRewardAndStake[E].locked by exactly a,
\* raises the number of stakers of P by 1 iff S had no stake on P, and changes
\* no other staker's ledger or stake entry.
C36_StakeEffects ==
  [][\A staker \in Stakers, P \in Pools, value \in StakeValues :
       (stake(staker, P, value) /\ result' = "Ok") =>
         LET a == events'[1].amount
             E == current_era
             era_before == era_reward_and_stake_or_default(era_reward_and_stake, E)
         IN /\ StakeMovesPoints(staker, P, a)
            /\ E \in DOMAIN era_reward_and_stake'
            /\ era_reward_and_stake'[E].staked = era_before.staked + a
            /\ "locked" \in DOMAIN era_reward_and_stake'[E]
            /\ era_reward_and_stake'[E].locked = era_reward_and_stake[E].locked + a]_vars

\* C37: a successful claim(P, E) leaves points[P, E] marked as claimed, a
\* reward of 0 included, and a marked entry refuses every later claim(P, E):
\* at most one claim per provider and era succeeds.
C37_ClaimOnce ==
  /\ [][\A origin \in Origins, P \in Pools, E \in 0..current_era :
          (claim(origin, P, E) /\ result' = "Ok") =>
            /\ claimed_direct(P, E)' > 0
            /\ \A again \in Origins : claim_result(again, P, E)' # "Ok"]_vars
  /\ [][\A P \in Pools, E \in 0..current_era :
          claimed_direct(P, E) > 0 =>
            \A again \in Origins : claim_result(again, P, E)' # "Ok"]_vars

\* C38: for every closed era E, the claimed_rewards of all providers for E
\* add up to at most EraRewardsAndStakes[E].rewards, also when the staked
\* total of E is 0 or below a provider's total.
C38_PayoutBound ==
  \A E \in 0..(current_era - 1) :
    SumOver(AllPools, [P \in AllPools |-> claimed_direct(P, E)]) <=
      era_reward_and_stake_or_default(era_reward_and_stake, E).rewards

\* C39: once era E is closed (E < current_era) no step changes
\* EraRewardsAndStakes[E] or the total and stakers that a read of the points
\* of (P, E) returns, directly or by fallback; claimed_rewards of (P, E)
\* changes only from 0, and only by a successful claim(P, E).
C39_ClosedErasImmutable ==
  [][\A E \in 0..(current_era - 1) :
       /\ (E \in DOMAIN era_reward_and_stake') = (E \in DOMAIN era_reward_and_stake)
       /\ E \in DOMAIN era_reward_and_stake =>
            era_reward_and_stake'[E] = era_reward_and_stake[E]
       /\ \A P \in Pools :
            /\ staking_info(P, E)'.total = staking_info(P, E).total
            /\ staking_info(P, E)'.stakers = staking_info(P, E).stakers
            /\ claimed_direct(P, E)' # claimed_direct(P, E) =>
                 /\ claimed_direct(P, E) = 0
                 /\ result' = "Ok"
                 /\ \E origin \in Origins : claim(origin, P, E)]_vars
\* era 1 of pool p1 has been paid out, and a stake on p1 in era 2 has just
\* raised the pool's total above the one a read of era 1 still returns
C39_Witness ==
  /\ current_era = 2
  /\ result = "Ok"
  /\ events # <<>>
  /\ events[1].name = "BondAndStake"
  /\ events[1].pool = "p1"
  /\ claimed_direct("p1", 1) > 0
  /\ staking_info("p1", 2).total > staking_info("p1", 1).total
  /\ staking_info("p1", 1).total > 0

\* C40: a provider id is never removed, enters Providers as Registered, and
\* once Unregistered keeps its record as it is under every call; and
\* register_provider by a signed caller on an id that is present, Registered
\* or Unregistered, fails with AlreadyExist.
C40_LifecycleOneWay ==
  [][\A P \in ProviderIdsPair :
       /\ P \in DOMAIN providers => P \in DOMAIN providers'
       /\ (P \notin DOMAIN providers /\ P \in DOMAIN providers')
            => providers'[P].state = "Registered"
       /\ (P \in DOMAIN providers /\ providers[P].state = "Unregistered")
            => providers'[P] = providers[P]
       /\ \A origin \in RegistryOrigins, chain_id \in ChainIdInputs,
             deposit \in ProviderDepositsWide :
            (/\ register_provider(origin, P, "Gateway", chain_id, deposit)
             /\ origin.kind = "Signed"
             /\ P \in DOMAIN providers)
              => /\ result' = "AlreadyExist"
                 /\ UNCHANGED <<stakingVars, currencyVars, registryVars>>]_vars
\* with p1 Unregistered, no other provider, no chain id and no fisherman
\* left, a call has just been refused with AlreadyExist: a registration of p1
C40_Witness ==
  /\ result = "AlreadyExist"
  /\ events = <<>>
  /\ DOMAIN providers = {"p1"}
  /\ providers["p1"].state = "Unregistered"
  /\ chain_ids = {}
  /\ fishermen = {}
====
